---- MODULE Spec2Model ----
(***************************************************************************)
(* Verification model of the retrieval and generation subsystem of         *)
(* ai-notes (src/app).  Text is modelled as a tuple of one-character       *)
(* strings, so that find / strip / split are computed as the code does.    *)
(* One specification per subsystem:                                        *)
(*   SpecStream   RagService.ask_stream                                    *)
(*   SpecReindex  background reindex (api/main.py, desktop/main.py)        *)
(*   SpecStore    Repository chunk store, RagIndex.index_note/build_index  *)
(*   SpecQuery    RagIndex.query                                           *)
(*   SpecSelect   ChunkSelector.select                                     *)
(*   SpecExpand   QueryExpander.expand                                     *)
(*   SpecFusion   reciprocal_rank_fusion                                   *)
(*   SpecService  RagService.ask / ask_stream next to a changing Config    *)
(***************************************************************************)
EXTENDS Integers, Sequences, FiniteSets, TLC

\* ------------------------------------------------------------------------
\* Bounds of the model
\* ------------------------------------------------------------------------
MaxDeltas == 3

MaxNotes == 2
\* Reindex requests handled per front end.
MaxRequests == 3
\* Chunks handed to ChunkSelector.select.
MaxChunks == 3
\* Queries the expander returns for one question.
MaxLegs == 2
\* Ranked lists handed to one call of reciprocal_rank_fusion.
MaxLists == 3
\* Elements of the embedding array of one response.
MaxDim == 2
\* Characters of a text handed to the chunker.
MaxText == 7

\* ------------------------------------------------------------------------
\* Text helpers (python str operations on tuples of characters)
\* ------------------------------------------------------------------------
EmptyStr == <<>>

Max(a, b) == IF a >= b THEN a ELSE b

Min(a, b) == IF a <= b THEN a ELSE b

Last(seq) == seq[Len(seq)]

\* str.lower() on one character (only the letters the model uses).
LowerChar(c) ==
    CASE c = "T" -> "t"
      [] c = "Y" -> "y"
      [] c = "E" -> "e"
      [] c = "S" -> "s"
      [] c = "N" -> "n"
      [] c = "O" -> "o"
      [] OTHER -> c

\* str.upper() on one character.
UpperChar(c) ==
    CASE c = "t" -> "T"
      [] c = "y" -> "Y"
      [] c = "e" -> "E"
      [] c = "s" -> "S"
      [] c = "n" -> "N"
      [] c = "o" -> "O"
      [] OTHER -> c

Lower(text) == [i \in 1..Len(text) |-> LowerChar(text[i])]

Upper(text) == [i \in 1..Len(text) |-> UpperChar(text[i])]

\* str.find(pat): 1-based index of the first occurrence, 0 when python
\* returns -1.
Find(text, pat) ==
    LET hits == {i \in 1..(Len(text) - Len(pat) + 1) :
                    SubSeq(text, i, i + Len(pat) - 1) = pat}
    IN IF hits = {} THEN 0 ELSE CHOOSE i \in hits : \A j \in hits : i <= j

\* "".join(list of strings)
RECURSIVE Flatten(_)
Flatten(ss) == IF ss = <<>> THEN <<>> ELSE Head(ss) \o Flatten(Tail(ss))

OpenThink == <<"<", "t", "h", "i", "n", "k", ">">>

CloseThink == <<"<", "/", "t", "h", "i", "n", "k", ">">>

\* ------------------------------------------------------------------------
\* RagIndex._chunk_text and RagIndex._serialize_vector
\* ------------------------------------------------------------------------
NL == "\n"

\* str.isspace() for the characters of the model.
IsSpace(c) == c \in {" ", NL, "\t"}

RECURSIVE LStrip(_)
LStrip(t) == IF t # <<>> /\ IsSpace(Head(t)) THEN LStrip(Tail(t)) ELSE t

RECURSIVE RStrip(_)
RStrip(t) ==
    IF t # <<>> /\ IsSpace(t[Len(t)]) THEN RStrip(SubSeq(t, 1, Len(t) - 1)) ELSE t

\* str.strip()
Strip(t) == RStrip(LStrip(t))

\* [s.strip() for s in parts if s.strip()]
StripNonEmpty(parts) ==
    LET stripped == [i \in 1..Len(parts) |-> Strip(parts[i])]
    IN SelectSeq(stripped, LAMBDA x : x # <<>>)

\* _HEADING_SPLIT_RE = (?=^#{1,6}\s) with re.MULTILINE: position i (1-based)
\* is at a line start and is followed by one to six '#' and a whitespace.
HeadingAt(text, i) ==
    /\ (i = 1 \/ text[i - 1] = NL)
    /\ \E k \in 1..6 :
          /\ i + k <= Len(text)
          /\ \A j \in 0..(k - 1) : text[i + j] = "#"
          /\ IsSpace(text[i + k])

\* re.split on the zero-width matches: cut before every matching position
\* (a match at the very start gives a leading empty piece).
RECURSIVE SplitHeadings(_, _, _)
SplitHeadings(text, from, i) ==
    IF i > Len(text) THEN <<SubSeq(text, from, Len(text))>>
    ELSE IF HeadingAt(text, i)
         THEN <<SubSeq(text, from, i - 1)>> \o SplitHeadings(text, i, i + 1)
         ELSE SplitHeadings(text, from, i + 1)

\* str.split("\n\n"): non-overlapping separators, scanned left to right.
RECURSIVE SplitParagraphs(_, _, _)
SplitParagraphs(text, from, i) ==
    IF i + 1 > Len(text) THEN <<SubSeq(text, from, Len(text))>>
    ELSE IF text[i] = NL /\ text[i + 1] = NL
         THEN <<SubSeq(text, from, i - 1)>> \o SplitParagraphs(text, i + 2, i + 2)
         ELSE SplitParagraphs(text, from, i + 1)

\* The merge loop with the joiner left out of the length test.
RECURSIVE MergeSections_JoinerUncounted(_, _, _)
MergeSections_JoinerUncounted(current, rest, max_chars) ==
    IF rest = <<>> THEN (IF current # <<>> THEN <<current>> ELSE <<>>)
    ELSE IF Len(current) + Len(Head(rest)) <= max_chars
         THEN MergeSections_JoinerUncounted(current \o <<NL, NL>> \o Head(rest), Tail(rest), max_chars)
         ELSE <<current>> \o MergeSections_JoinerUncounted(Head(rest), Tail(rest), max_chars)

\* The merge loop of _chunk_text (index.py:70-79).
RECURSIVE MergeSections(_, _, _)
MergeSections(current, rest, max_chars) ==
    IF rest = <<>> THEN (IF current # <<>> THEN <<current>> ELSE <<>>)
    ELSE IF Len(current) + Len(Head(rest)) + 2 <= max_chars
         THEN MergeSections(current \o <<NL, NL>> \o Head(rest), Tail(rest), max_chars)
         ELSE <<current>> \o MergeSections(Head(rest), Tail(rest), max_chars)

\* The sections _chunk_text merges (index.py:58-66): the stripped non-empty
\* pieces between headings, or between blank lines when there is at most one
\* heading piece.
sections_of(raw) ==
    LET text == Strip(raw)
        by_heading == StripNonEmpty(SplitHeadings(text, 1, 1))
    IN IF Len(by_heading) <= 1
       THEN StripNonEmpty(SplitParagraphs(text, 1, 1))
       ELSE by_heading

\* _chunk_text where every chunk is cut down to max_chars.
chunk_text_Truncating(raw, max_chars) ==
    LET text == Strip(raw)
        by_heading == StripNonEmpty(SplitHeadings(text, 1, 1))
        sections == IF Len(by_heading) <= 1
                    THEN StripNonEmpty(SplitParagraphs(text, 1, 1))
                    ELSE by_heading
        chunks == MergeSections(Head(sections), Tail(sections), max_chars)
        whole == IF text = <<>> THEN <<>>
                 ELSE IF Len(text) <= max_chars THEN <<text>>
                 ELSE IF sections = <<>> THEN <<text>>
                 ELSE IF chunks # <<>> THEN chunks ELSE <<text>>
    IN [i \in 1..Len(whole) |-> SubSeq(whole[i], 1, Min(Len(whole[i]), max_chars))]

\* RagIndex._chunk_text(text, max_chars)
chunk_text(raw, max_chars) ==
    LET text == Strip(raw)
        by_heading == StripNonEmpty(SplitHeadings(text, 1, 1))
        sections == IF Len(by_heading) <= 1
                    THEN StripNonEmpty(SplitParagraphs(text, 1, 1))
                    ELSE by_heading
        chunks == MergeSections(Head(sections), Tail(sections), max_chars)
    IN IF text = <<>> THEN <<>>
       ELSE IF Len(text) <= max_chars THEN <<text>>
       ELSE IF sections = <<>> THEN <<text>>
       ELSE IF chunks # <<>> THEN chunks ELSE <<text>>

\* RagIndex._note_text(note)
note_text(note) == Strip(note.title \o <<NL, NL>> \o note.content)

\* CHUNK_MAX_CHARS (2000 in rag/config.py), scaled to the texts of the model.
CHUNK_MAX_CHARS == 6

\* One float as four little-endian IEEE-754 float32 bytes (struct "<f").
Float32LE(x) ==
    CASE x = 0 -> <<0, 0, 0, 0>>
      [] x = 1 -> <<0, 0, 128, 63>>
      [] x = -1 -> <<0, 0, 128, 191>>

\* RagIndex._serialize_vector(vec)
serialize_vector(vec) == Flatten([i \in 1..Len(vec) |-> Float32LE(vec[i])])

\* What sqlite-vec reads back from a float32 blob.
DecodeFloat32(b) ==
    CASE b = <<0, 0, 0, 0>> -> 0
      [] b = <<0, 0, 128, 63>> -> 1
      [] b = <<0, 0, 128, 191>> -> -1

DecodeBlob(blob) ==
    [i \in 1..(Len(blob) \div 4) |-> DecodeFloat32(SubSeq(blob, 4 * i - 3, 4 * i))]

\* Unit vectors an embedding call can return.
Vectors == { <<1, 0>>, <<0, 1>> }

\* What OllamaClient.embed gives the indexer for one chunk: a vector, or []
\* when the call failed.

EmbedOutcomes == Vectors \cup { <<>> }

\* ------------------------------------------------------------------------
\* State
\* ------------------------------------------------------------------------
VARIABLES
    \* -- RagService.ask_stream (one run of the generator) --
    s_pc,            \* position of the generator
    llm,             \* the deltas generate_stream is going to yield
    pos,             \* number of deltas pulled from generate_stream
    chunk,           \* loop variable `chunk`
    pending,         \* local `pending`
    in_think,        \* local `in_think`
    status_updates,  \* local `status_updates`
    status_idx,      \* number of status_updates already yielded
    sources,         \* local `sources`
    events,          \* events the caller has received, in order
    cancel,          \* the caller's cancel predicate (threading.Event)
    cancel_hist,     \* when the predicate became true (history)
    s_contexts,      \* local `contexts`
    s_query_call,    \* arguments index.query was called with (history)
    s_entry_config,  \* the configuration when the run entered (history)
    cb_statuses,     \* messages the caller's status_cb received, in order
    s_client,        \* the LLMClient implementation behind self._client
    llm_failed,      \* the exchange failed while the completion streamed (history)
    \* -- the Config object the service shares with the preferences --
    config,          \* Config._data: the knobs
    \* -- the database file (committed state) --
    notes,           \* table notes: id -> [title, content]
    next_id,         \* AUTOINCREMENT counter of notes.id
    embeddings,      \* table note_embeddings: set of rows
    \* -- the indexing handle: one Repository connection and the RagIndex
    \*    call running on it --
    tx,              \* rows of note_embeddings as seen inside the open
                     \* transaction of the handle, or NoTx
    ix_op,           \* "none", "index_note" or "build_index"
    ix_pc,           \* position inside the call
    progress_cb,     \* whether build_index was given a progress callback
    ix_list,         \* local `notes` of build_index
    ix_idx,          \* loop variable `idx` of build_index
    ix_note,         \* the note being indexed
    ix_chunks,       \* local `chunks`
    ix_ci,           \* number of chunks already embedded
    chunk_embeddings,\* local `chunk_embeddings`
    ix_ins,          \* number of rows already inserted by replace_note_embeddings
    ix_ret,          \* value returned by the call
    progress,        \* calls of the progress callback, in order
    before,          \* note_embeddings as the running call found it (history)
    replace_old,     \* rows of the note when replace_note_embeddings began (history)
    \* -- a reader on another Repository handle --
    observed,        \* the rows its last SELECT returned, or NoObservation
    \* -- background reindex, HTTP front end (api/main.py) --
    api_running,     \* reindex_state.running
    api_current,     \* reindex_state.current
    api_total,       \* reindex_state.total
    api_error,       \* reindex_state.error ("none" for None)
    api_spawn,       \* handlers between the locked block and Thread.start()
    api_workers,     \* position of every worker thread started so far
    api_requests,    \* POST /rag/reindex requests handled so far
    \* -- background reindex, desktop window (desktop/main.py) --
    desk_running,    \* NotesWindow._reindex_running
    desk_workers,    \* position of every _reindex_worker thread started so far
    desk_idle,       \* _on_reindex_done calls queued with GLib.idle_add
    desk_requests,   \* _start_reindex calls handled so far
    \* -- ChunkSelector.select (one call) --
    sel_pc,          \* position of the call
    sel_chunks,      \* argument `chunks`
    sel_i,           \* number of chunks the list comprehension has visited
    relevant,        \* local `relevant`
    sel_llm,         \* what self._client.generate did for each visited chunk
    sel_ret,         \* the returned list
    sel_client,      \* which LLMClient the selector was constructed with
    sel_transport,   \* whether the HTTP exchange failed, per visited chunk (history)
    \* -- RagIndex.query (one call, on a store nobody writes meanwhile) --
    q_pc,            \* position of the call
    q_question,      \* argument `question`
    q_top_k,         \* argument `top_k`
    effective_hybrid,\* local `effective_hybrid`
    q_status,        \* calls of status_cb, in order
    expanded_questions, \* local `expanded_questions`
    q_leg,           \* loop variable `leg_idx`
    q_vec,           \* local `q_vec` of the current leg
    ranked_lists,    \* local `ranked_lists`
    chunk_query_blob,\* local `chunk_query_blob` ("None" or a blob)
    q_results,       \* local `results`
    q_hi,            \* number of results already hydrated
    q_ret,           \* the returned list
    q_embedded,      \* texts handed to embed, with the outcome (history)
    q_searches,      \* store searches run: leg and kind, in order (history)
    q_expander,      \* how the expansion went (history)
    \* -- QueryExpander.expand (one call) --
    x_pc,            \* position of the call
    x_question,      \* argument `question`
    x_target,        \* argument `target_count`
    x_base,          \* local `base_query`
    x_capped,        \* local `capped_count`
    x_llm,           \* what self._client.generate did, or NoLlmCall (history)
    x_ret,           \* the returned list
    \* -- reciprocal_rank_fusion (one call) --
    f_pc,            \* position of the call
    f_lists,         \* argument `ranked_lists`
    f_fused,         \* the returned list
    \* -- RagService.ask (one call) --
    a_pc,            \* position of the call
    a_transport,     \* what the HTTP exchange of the generate call will do
    a_entry_config,  \* the configuration when the call entered (history)
    a_contexts,      \* state["contexts"]
    a_ret,            \* the returned dict, or how the call ended
    \* -- LLMClient.embed and the indexer's use of its result (one chunk) --
    e_pc,            \* position: embed called, vector returned, blob stored
    e_client,        \* the LLMClient implementation
    e_response,      \* what the HTTP exchange of the embed call delivers
    e_ret,           \* the vector embed returned
    e_blob,           \* the blob the indexer stored for the chunk, or NoBlob
    \* -- RagIndex._chunk_text (one call) --
    c_pc,            \* position of the call
    c_text,          \* argument `text`
    c_max,           \* argument `max_chars`
    c_chunks,         \* the returned list
    \* -- the notes table and its lexical index (one database file) --
    db_open,         \* a Repository holds a connection to the file
    db_notes,        \* table notes: id -> [title, content]
    db_next_id,      \* AUTOINCREMENT counter of notes.id
    fts_created,     \* notes_fts and its three triggers exist
    notes_fts,       \* the entries the index holds
    db_last,          \* the latest statement run on the file (history)
    \* -- Repository.search_notes_by_bm25 (one call) --
    b_pc,            \* position of the call
    b_query,         \* argument `query`
    b_safe,          \* local `safe_query`
    b_engine,        \* MATCH arguments the full-text engine received (history)
    b_ret,            \* what the call returned
    \* -- the pipeline build_graph compiles (one invoke) --
    g_pc,            \* the node to run next
    g_selector,      \* build_graph was given a chunk_selector
    g_state,         \* RagState: contexts, selected_contexts ("absent" or a list)
    g_prompt,        \* the list generate passed to format_contexts (history)
    g_answer,         \* what client.generate did
    \* -- the desktop window, its service and the store handles --
    h_open,          \* handle -> the connection is open
    h_next,          \* the next handle Repository(...) creates
    win_service,     \* NotesWindow._rag_service: the handle it is bound to
    h_clones,        \* reindex workers: the clone's handle and the worker's phase
    h_saves,         \* number of configuration saves so far
    h_ops            \* store operations issued: handle and whether it was open (history)

streamVars == <<s_pc, llm, pos, chunk, pending, in_think, status_updates,
                status_idx, sources, events, cancel, cancel_hist,
                s_contexts, s_query_call, s_entry_config, cb_statuses,
                s_client, llm_failed>>

configVars == <<config>>

storeVars == <<notes, next_id, embeddings, tx, ix_op, ix_pc, progress_cb, ix_list,
               ix_idx, ix_note, ix_chunks, ix_ci, chunk_embeddings, ix_ins,
               ix_ret, progress, before, replace_old, observed>>

reindexVars == <<api_running, api_current, api_total, api_error, api_spawn,
                 api_workers, api_requests, desk_running, desk_workers, desk_idle,
                 desk_requests>>

selectVars == <<sel_pc, sel_chunks, sel_i, relevant, sel_llm, sel_ret, sel_client,
                sel_transport>>

queryVars == <<q_pc, q_question, q_top_k, effective_hybrid, q_status,
               expanded_questions, q_leg, q_vec, ranked_lists, chunk_query_blob,
               q_results, q_hi, q_ret,
               q_embedded, q_searches, q_expander>>

expandVars == <<x_pc, x_question, x_target, x_base, x_capped, x_llm, x_ret>>

fusionVars == <<f_pc, f_lists, f_fused>>

askVars == <<a_pc, a_transport, a_entry_config, a_contexts, a_ret>>

embedVars == <<e_pc, e_client, e_response, e_ret, e_blob>>

chunkVars == <<c_pc, c_text, c_max, c_chunks>>

ftsVars == <<db_open, db_notes, db_next_id, fts_created, notes_fts, db_last>>

bm25Vars == <<b_pc, b_query, b_safe, b_engine, b_ret>>

graphVars == <<g_pc, g_selector, g_state, g_prompt, g_answer>>

handleVars == <<h_open, h_next, win_service, h_clones, h_saves, h_ops>>

vars == <<streamVars, storeVars, reindexVars, selectVars, queryVars,
          expandVars, fusionVars, configVars, askVars, embedVars,
          chunkVars, ftsVars, bm25Vars, graphVars, handleVars>>

\* What the steps of one part of the program leave alone.
outsideStream == <<storeVars, reindexVars, selectVars, queryVars, expandVars,
                   fusionVars, configVars, askVars, embedVars, chunkVars,
                   ftsVars, bm25Vars, graphVars, handleVars>>

outsideStore == <<streamVars, reindexVars, selectVars, queryVars, expandVars,
                  fusionVars, configVars, askVars, embedVars, chunkVars,
                  ftsVars, bm25Vars, graphVars, handleVars>>

outsideReindex == <<streamVars, storeVars, selectVars, queryVars, expandVars,
                    fusionVars, configVars, askVars, embedVars, chunkVars,
                    ftsVars, bm25Vars, graphVars, handleVars>>

outsideSelect == <<streamVars, storeVars, reindexVars, queryVars, expandVars,
                   fusionVars, configVars, askVars, embedVars, chunkVars,
                   ftsVars, bm25Vars, graphVars, handleVars>>

outsideQuery == <<streamVars, storeVars, reindexVars, selectVars, expandVars,
                  fusionVars, configVars, askVars, embedVars, chunkVars,
                  ftsVars, bm25Vars, graphVars, handleVars>>

outsideExpand == <<streamVars, storeVars, reindexVars, selectVars, queryVars,
                   fusionVars, configVars, askVars, embedVars, chunkVars,
                   ftsVars, bm25Vars, graphVars, handleVars>>

outsideFusion == <<streamVars, storeVars, reindexVars, selectVars, queryVars,
                   expandVars, configVars, askVars, embedVars, chunkVars,
                   ftsVars, bm25Vars, graphVars, handleVars>>

outsideConfig == <<streamVars, storeVars, reindexVars, selectVars, queryVars,
                   expandVars, fusionVars, askVars, embedVars, chunkVars,
                   ftsVars, bm25Vars, graphVars, handleVars>>

outsideAsk == <<streamVars, storeVars, reindexVars, selectVars, queryVars,
                expandVars, fusionVars, configVars, embedVars, chunkVars,
                ftsVars, bm25Vars, graphVars, handleVars>>

outsideEmbed == <<streamVars, storeVars, reindexVars, selectVars, queryVars,
                  expandVars, fusionVars, configVars, askVars, chunkVars,
                  ftsVars, bm25Vars, graphVars, handleVars>>

outsideChunk == <<streamVars, storeVars, reindexVars, selectVars, queryVars,
                  expandVars, fusionVars, configVars, askVars, embedVars,
                  ftsVars, bm25Vars, graphVars, handleVars>>

outsideFts == <<streamVars, storeVars, reindexVars, selectVars, queryVars,
                expandVars, fusionVars, configVars, askVars, embedVars,
                chunkVars, bm25Vars, graphVars, handleVars>>

outsideBm25 == <<streamVars, storeVars, reindexVars, selectVars, queryVars,
                 expandVars, fusionVars, configVars, askVars, embedVars,
                 chunkVars, ftsVars, graphVars, handleVars>>

outsideGraph == <<streamVars, storeVars, reindexVars, selectVars, queryVars,
                  expandVars, fusionVars, configVars, askVars, embedVars,
                  chunkVars, ftsVars, bm25Vars, handleVars>>

outsideHandle == <<streamVars, storeVars, reindexVars, selectVars, queryVars,
                   expandVars, fusionVars, configVars, askVars, embedVars,
                   chunkVars, ftsVars, bm25Vars, graphVars>>

\* ------------------------------------------------------------------------
\* RagService.ask_stream
\* ------------------------------------------------------------------------

\* Deltas an LLM client may yield (non-empty: both clients skip empty ones).
DeltaPool ==
    { <<"a", "b">>,
      <<"c">>,
      OpenThink,
      CloseThink,
      <<"<", "t", "h">>,
      <<"i", "n", "k", ">", "x">>,
      <<"x", "<", "T", "h", "i", "n", "k", ">", "y", "<", "/", "t", "h", "i", "n", "k", ">", "z">> }

RECURSIVE SeqsUpTo(_, _)
SeqsUpTo(S, n) ==
    IF n = 0 THEN {<<>>}
    ELSE LET shorter == SeqsUpTo(S, n - 1)
         IN shorter \cup {Append(s, x) : s \in {t \in shorter : Len(t) = n - 1}, x \in S}

\* Documents index.query may hand back (id, title, content).
Digit(i) == CASE i = 1 -> "1" [] i = 2 -> "2" [] i = 3 -> "3" [] OTHER -> "0"

Doc(i) == [id |-> i, title |-> <<"n", Digit(i)>>, content |-> <<"c", Digit(i)>>]

ContextPool == { <<>>, <<Doc(1)>>, <<Doc(2), Doc(1)>>, <<Doc(1), Doc(2), Doc(3)>> }

\* config.top_k values (Config.set_top_k keeps it >= 1).
TopKPool == {1, 2}

\* Default of the parameter top_k of RagIndex.query (RAG_TOP_K unset).
TOP_K == 5

\* Saved transformed-query counts: 1 disables expansion, 6 is the count of
\* test_ask_stream_uses_saved_transformed_query_count.
SavedCountPool == {1, 6}

\* The while loop of _extract_deltas.
RECURSIVE ExtractLoop(_, _, _, _)
ExtractLoop(text, inThink, thinking_delta, answer_delta) ==
    IF text = EmptyStr
    THEN [thinking_delta |-> thinking_delta, answer_delta |-> answer_delta,
          in_think |-> inThink, text |-> text]
    ELSE IF ~inThink
         THEN LET idx == Find(Lower(text), OpenThink)
              IN IF idx = 0
                 THEN [thinking_delta |-> thinking_delta,
                       answer_delta |-> answer_delta \o text,
                       in_think |-> inThink, text |-> EmptyStr]
                 ELSE ExtractLoop(SubSeq(text, idx + Len(OpenThink), Len(text)),
                                  TRUE, thinking_delta,
                                  answer_delta \o SubSeq(text, 1, idx - 1))
         ELSE LET idx == Find(Lower(text), CloseThink)
              IN IF idx = 0
                 THEN [thinking_delta |-> thinking_delta \o text,
                       answer_delta |-> answer_delta,
                       in_think |-> inThink, text |-> EmptyStr]
                 ELSE ExtractLoop(SubSeq(text, idx + Len(CloseThink), Len(text)),
                                  FALSE,
                                  thinking_delta \o SubSeq(text, 1, idx - 1),
                                  answer_delta)

\* _extract_deltas(text, in_think) -> (thinking_delta, answer_delta, in_think, text)
extract_deltas(text, inThink) ==
    LET r == ExtractLoop(text, inThink, EmptyStr, EmptyStr)
        tail_keep == Max(Len(OpenThink), Len(CloseThink)) - 1
    IN IF Len(r.text) > tail_keep
       THEN [r EXCEPT !.text = SubSeq(r.text, Len(r.text) - tail_keep + 1, Len(r.text))]
       ELSE r

\* The event dicts ask_stream yields.  A key the dict does not carry is
\* modelled by the value dict.get() gives the consumers: "" or FALSE.
StatusEvent(message, srcs) ==
    [status |-> message, answer_delta |-> EmptyStr, thinking_delta |-> EmptyStr,
     sources |-> srcs, done |-> FALSE, cancelled |-> FALSE]

DeltaEvent(answer_delta, thinking_delta, srcs) ==
    [status |-> "", answer_delta |-> answer_delta, thinking_delta |-> thinking_delta,
     sources |-> srcs, done |-> FALSE, cancelled |-> FALSE]

CancelledEvent(srcs) ==
    [status |-> "", answer_delta |-> EmptyStr, thinking_delta |-> EmptyStr,
     sources |-> srcs, done |-> TRUE, cancelled |-> TRUE]

DoneEvent(srcs) ==
    [status |-> "", answer_delta |-> EmptyStr, thinking_delta |-> EmptyStr,
     sources |-> srcs, done |-> TRUE, cancelled |-> FALSE]

\* [note.get("title", "Untitled") for note in contexts][:top_k]
SourcesOf(contexts, top_k) ==
    LET titles == [i \in 1..Len(contexts) |-> contexts[i].title]
    IN SubSeq(titles, 1, Min(top_k, Len(titles)))

\* No call of index.query yet; no configuration captured yet.
NoQueryCall == [top_k |-> 0, transformed_query_count |-> 0, hybrid |-> "no call"]

NoConfig == [top_k |-> 0, transformed_query_count |-> 0]

\* Config._data as far as a query is concerned: top_k and the saved
\* transformed-query count.
ConfigPool == [top_k : TopKPool, transformed_query_count : SavedCountPool]

ConfigInit == config \in ConfigPool

\* A configuration saved without query expansion (count 1).
ConfigInitPlain == config \in {c \in ConfigPool : c.transformed_query_count = 1}

\* The configuration while no query of the service is modelled.
ConfigIdle == config = [top_k |-> 1, transformed_query_count |-> 1]

\* Config.set_top_k(value), from the preferences window (UI thread), at any
\* moment: self._data["top_k"] = max(1, int(value)).
ConfigSet ==
    /\ \E value \in 0..2 : config' = [config EXCEPT !.top_k = Max(1, value)]
    /\ UNCHANGED outsideConfig

NoCancel == [at_pc |-> "never", recv |-> 0, answers |-> 0, emitted |-> 0]

\* Number of events with a non-empty answer_delta.
RECURSIVE AnswerCount(_)
AnswerCount(evs) ==
    IF evs = <<>> THEN 0
    ELSE (IF Head(evs).answer_delta # EmptyStr THEN 1 ELSE 0) + AnswerCount(Tail(evs))

StreamInit ==
    /\ s_pc = "start"
    /\ llm \in SeqsUpTo(DeltaPool, MaxDeltas)
    /\ pos = 0
    /\ chunk = EmptyStr
    /\ pending = EmptyStr
    /\ in_think = FALSE
    /\ status_updates = <<>>
    /\ status_idx = 0
    /\ sources = <<>>
    /\ events = <<>>
    /\ cancel = FALSE
    /\ cancel_hist = NoCancel
    /\ s_contexts = <<>>
    /\ s_query_call = NoQueryCall
    /\ s_entry_config = NoConfig
    /\ cb_statuses = <<>>
    /\ s_client = "ollama"
    /\ llm_failed = FALSE

\* The generator starts and calls self._index.query(question,
\* status_cb=status_proxy): no top_k, no transformed_query_count and no
\* hybrid flag are passed, so query runs with its defaults.  The first thing
\* query does is report "Expanding the question" (index.py:183-184), which
\* status_proxy records and hands to the caller's status_cb.
Enter ==
    /\ s_pc = "start"
    /\ s_entry_config' = config
    /\ s_query_call' = [top_k |-> TOP_K, transformed_query_count |-> 1,
                        hybrid |-> "None"]
    /\ status_updates' = <<"Expanding the question">>
    /\ cb_statuses' = <<"Expanding the question">>
    /\ s_pc' = "retrieving"
    /\ UNCHANGED <<llm, pos, chunk, pending, in_think, status_idx, sources, events,
                   cancel, cancel_hist, s_contexts>>
    /\ UNCHANGED <<s_client, llm_failed>>
    /\ UNCHANGED outsideStream

\* query returns; sources = [titles of contexts][:self._config.top_k], with
\* the top_k the shared Config holds now.  Unless expansion produced no
\* query at all, query has reported "Searching notes" (index.py:198-199).
Retrieve ==
    /\ s_pc = "retrieving"
    /\ \E ctxs \in ContextPool, searched \in BOOLEAN :
          /\ (~searched) => ctxs = <<>>
          /\ status_updates' = IF searched
                               THEN Append(status_updates, "Searching notes")
                               ELSE status_updates
          /\ cb_statuses' = IF searched
                            THEN Append(cb_statuses, "Searching notes")
                            ELSE cb_statuses
          /\ s_contexts' = ctxs
          /\ sources' = SourcesOf(ctxs, config.top_k)
    /\ s_pc' = "status"
    /\ UNCHANGED <<llm, pos, chunk, pending, in_think, status_idx, events, cancel,
                   cancel_hist, s_query_call, s_entry_config>>
    /\ UNCHANGED <<s_client, llm_failed>>
    /\ UNCHANGED outsideStream

\* self._index.query raises (a store failure is not caught here), before or
\* after it reported "Searching notes".
RetrieveRaises ==
    /\ s_pc = "retrieving"
    /\ \E searched \in BOOLEAN :
          /\ status_updates' = IF searched
                               THEN Append(status_updates, "Searching notes")
                               ELSE status_updates
          /\ cb_statuses' = IF searched
                            THEN Append(cb_statuses, "Searching notes")
                            ELSE cb_statuses
    /\ s_pc' = "raised"
    /\ UNCHANGED <<llm, pos, chunk, pending, in_think, status_idx,
                   sources, events, cancel, cancel_hist, s_contexts, s_query_call,
                   s_entry_config>>
    /\ UNCHANGED <<s_client, llm_failed>>
    /\ UNCHANGED outsideStream

\* for message in status_updates: yield {...}
EmitStatus ==
    /\ s_pc = "status"
    /\ status_idx < Len(status_updates)
    /\ events' = Append(events, StatusEvent(status_updates[status_idx + 1], sources))
    /\ status_idx' = status_idx + 1
    /\ UNCHANGED <<s_pc, llm, pos, chunk, pending, in_think, status_updates, sources,
                   cancel, cancel_hist>>
    /\ UNCHANGED <<s_contexts, s_query_call, s_entry_config, cb_statuses>>
    /\ UNCHANGED <<s_client, llm_failed>>
    /\ UNCHANGED outsideStream

\* The yield of "Querying Ollama" without the call of status_cb before it.
EmitQuerying_NoCallback ==
    /\ s_pc = "status"
    /\ status_idx = Len(status_updates)
    /\ events' = Append(events, StatusEvent("Querying Ollama", sources))
    /\ s_pc' = "pull"
    /\ UNCHANGED <<llm, pos, chunk, pending, in_think, status_updates, status_idx,
                   sources, cancel, cancel_hist, s_contexts, s_query_call,
                   s_entry_config, cb_statuses>>
    /\ UNCHANGED <<s_client, llm_failed>>
    /\ UNCHANGED outsideStream

\* status_cb("Querying Ollama"); yield {"status": "Querying Ollama", ...}
EmitQuerying ==
    /\ s_pc = "status"
    /\ status_idx = Len(status_updates)
    /\ cb_statuses' = Append(cb_statuses, "Querying Ollama")
    /\ events' = Append(events, StatusEvent("Querying Ollama", sources))
    /\ UNCHANGED <<s_contexts, s_query_call, s_entry_config>>
    /\ s_pc' = "pull"
    /\ UNCHANGED <<llm, pos, chunk, pending, in_think, status_updates, status_idx,
                   sources, cancel, cancel_hist>>
    /\ UNCHANGED <<s_client, llm_failed>>
    /\ UNCHANGED outsideStream

\* generate_stream yields its next delta.
LlmYield ==
    /\ s_pc = "pull"
    /\ pos < Len(llm)
    /\ chunk' = llm[pos + 1]
    /\ pos' = pos + 1
    /\ s_pc' = "poll"
    /\ UNCHANGED <<llm, pending, in_think, status_updates, status_idx, sources,
                   events, cancel, cancel_hist>>
    /\ UNCHANGED <<s_contexts, s_query_call, s_entry_config, cb_statuses>>
    /\ UNCHANGED <<s_client, llm_failed>>
    /\ UNCHANGED outsideStream

\* generate_stream reaches end-of-stream.
LlmEnd ==
    /\ s_pc = "pull"
    /\ pos = Len(llm)
    /\ s_pc' = "flush"
    /\ UNCHANGED <<llm, pos, chunk, pending, in_think, status_updates, status_idx,
                   sources, events, cancel, cancel_hist>>
    /\ UNCHANGED <<s_contexts, s_query_call, s_entry_config, cb_statuses>>
    /\ UNCHANGED <<s_client, llm_failed>>
    /\ UNCHANGED outsideStream

\* OpenAICompatibleClient.generate_stream: the transport fails while the
\* completion streams; `except Exception` logs it and the generator ends
\* like a finished stream (openai_client.py:94-113).
LlmSwallows ==
    /\ s_pc = "pull"
    /\ s_client = "openai"
    /\ llm_failed' = TRUE
    /\ s_pc' = "flush"
    /\ UNCHANGED <<llm, pos, chunk, pending, in_think, status_updates, status_idx,
                   sources, events, cancel, cancel_hist>>
    /\ UNCHANGED <<s_contexts, s_query_call, s_entry_config, cb_statuses, s_client>>
    /\ UNCHANGED outsideStream

\* OllamaClient.generate_stream raises: the transport failed (urlopen,
\* readline and json.loads run outside any try block) or the stream carried
\* an error object (ollama_client.py:92-109).
LlmRaises ==
    /\ s_pc = "pull"
    /\ s_client = "ollama"
    /\ llm_failed' = TRUE
    /\ s_pc' = "raised"
    /\ UNCHANGED <<llm, pos, chunk, pending, in_think, status_updates, status_idx,
                   sources, events, cancel, cancel_hist>>
    /\ UNCHANGED <<s_contexts, s_query_call, s_entry_config, cb_statuses>>
    /\ UNCHANGED s_client
    /\ UNCHANGED outsideStream

\* Body of the for loop with the cancel check ignored: a plausible slip.
LoopBody_IgnoresCancel ==
    /\ s_pc = "poll"
    /\ LET d == extract_deltas(pending \o chunk, in_think)
       IN /\ pending' = d.text
          /\ in_think' = d.in_think
          /\ events' = IF d.thinking_delta # EmptyStr \/ d.answer_delta # EmptyStr
                       THEN Append(events, DeltaEvent(d.answer_delta, d.thinking_delta, sources))
                       ELSE events
          /\ s_pc' = "pull"
    /\ UNCHANGED <<llm, pos, chunk, status_updates, status_idx, sources, cancel, cancel_hist>>
    /\ UNCHANGED <<s_contexts, s_query_call, s_entry_config, cb_statuses>>
    /\ UNCHANGED <<s_client, llm_failed>>
    /\ UNCHANGED outsideStream

\* Body of the for loop where the cancelled branch yields but does not return.
LoopBody_NoReturn ==
    /\ s_pc = "poll"
    /\ LET d == extract_deltas(pending \o chunk, in_think)
           evs == IF cancel THEN Append(events, CancelledEvent(sources)) ELSE events
       IN /\ pending' = d.text
          /\ in_think' = d.in_think
          /\ events' = IF d.thinking_delta # EmptyStr \/ d.answer_delta # EmptyStr
                       THEN Append(evs, DeltaEvent(d.answer_delta, d.thinking_delta, sources))
                       ELSE evs
          /\ s_pc' = "pull"
    /\ UNCHANGED <<llm, pos, chunk, status_updates, status_idx, sources, cancel, cancel_hist>>
    /\ UNCHANGED <<s_contexts, s_query_call, s_entry_config, cb_statuses>>
    /\ UNCHANGED <<s_client, llm_failed>>
    /\ UNCHANGED outsideStream

\* Body of the for loop (service.py:77-94): poll the predicate, then either
\* yield the cancelled terminal event and return, or extract and yield.
LoopBody ==
    /\ s_pc = "poll"
    /\ IF cancel
       THEN /\ events' = Append(events, CancelledEvent(sources))
            /\ s_pc' = "done"
            /\ UNCHANGED <<pending, in_think>>
       ELSE LET d == extract_deltas(pending \o chunk, in_think)
            IN /\ pending' = d.text
               /\ in_think' = d.in_think
               /\ events' = IF d.thinking_delta # EmptyStr \/ d.answer_delta # EmptyStr
                            THEN Append(events, DeltaEvent(d.answer_delta, d.thinking_delta, sources))
                            ELSE events
               /\ s_pc' = "pull"
    /\ UNCHANGED <<llm, pos, chunk, status_updates, status_idx, sources, cancel, cancel_hist>>
    /\ UNCHANGED <<s_contexts, s_query_call, s_entry_config, cb_statuses>>
    /\ UNCHANGED <<s_client, llm_failed>>
    /\ UNCHANGED outsideStream

\* if pending: ... yield (service.py:95-103)
Flush ==
    /\ s_pc = "flush"
    /\ IF pending # EmptyStr
       THEN LET d == extract_deltas(pending, in_think)
            IN /\ in_think' = d.in_think
               /\ events' = IF d.thinking_delta # EmptyStr \/ d.answer_delta # EmptyStr
                            THEN Append(events, DeltaEvent(d.answer_delta, d.thinking_delta, sources))
                            ELSE events
       ELSE UNCHANGED <<in_think, events>>
    /\ s_pc' = "final"
    /\ UNCHANGED <<llm, pos, chunk, pending, status_updates, status_idx, sources,
                   cancel, cancel_hist>>
    /\ UNCHANGED <<s_contexts, s_query_call, s_entry_config, cb_statuses>>
    /\ UNCHANGED <<s_client, llm_failed>>
    /\ UNCHANGED outsideStream

\* yield {..., "done": True} (service.py:104-109)
FinalYield ==
    /\ s_pc = "final"
    /\ events' = Append(events, DoneEvent(sources))
    /\ s_pc' = "done"
    /\ UNCHANGED <<llm, pos, chunk, pending, in_think, status_updates, status_idx,
                   sources, cancel, cancel_hist>>
    /\ UNCHANGED <<s_contexts, s_query_call, s_entry_config, cb_statuses>>
    /\ UNCHANGED <<s_client, llm_failed>>
    /\ UNCHANGED outsideStream

\* AskDialog._on_cancel: self._cancel.set(), from the UI thread, at any
\* moment of a run in progress.
OnCancel ==
    /\ s_pc \notin {"done", "raised"}
    /\ ~cancel
    /\ cancel' = TRUE
    /\ cancel_hist' = [at_pc |-> s_pc, recv |-> pos, answers |-> AnswerCount(events),
                       emitted |-> Len(events)]
    /\ UNCHANGED <<s_pc, llm, pos, chunk, pending, in_think, status_updates,
                   status_idx, sources, events>>
    /\ UNCHANGED <<s_contexts, s_query_call, s_entry_config, cb_statuses>>
    /\ UNCHANGED <<s_client, llm_failed>>
    /\ UNCHANGED outsideStream

StreamNext ==
    \/ Enter
    \/ Retrieve
    \/ RetrieveRaises
    \/ EmitStatus
    \/ EmitQuerying
    \/ LlmYield
    \/ LlmEnd
    \/ LlmRaises
    \/ LoopBody
    \/ Flush
    \/ FinalYield
    \/ OnCancel

\* ------------------------------------------------------------------------
\* Repository (notes, note_embeddings) and RagIndex.index_note / build_index
\* ------------------------------------------------------------------------

\* Title and content of the notes that get created.
NoteA == [title |-> <<"t">>, content |-> <<"a", "b">>]

NoteB == [title |-> <<"t">>, content |-> <<"#", " ", "a", NL, "#", " ", "b", "c", "d">>]

NotePool == {NoteA, NoteB}

NoteIds == 1..MaxNotes

NoTx == [open |-> FALSE, rows |-> {}]

NoNote == [id |-> 0, title |-> <<>>, content |-> <<>>]

NoReturn == [ok |-> FALSE, total |-> 0]

NoObservation == [note |-> 0, rows |-> {}, old |-> {}, new |-> {}]

\* A row of note_embeddings (id and updated_at are not modelled).
Row(note_id, chunk_index, chunk_text_, vector) ==
    [note_id |-> note_id, chunk_index |-> chunk_index,
     chunk_text |-> chunk_text_, vector |-> vector]

RowsOf(table, note_id) == {r \in table : r.note_id = note_id}

\* SELECT ... FROM notes, in rowid order.
RECURSIVE NotesList(_, _)
NotesList(tbl, i) ==
    IF i > MaxNotes THEN <<>>
    ELSE (IF i \in DOMAIN tbl
          THEN <<[id |-> i, title |-> tbl[i].title, content |-> tbl[i].content]>>
          ELSE <<>>) \o NotesList(tbl, i + 1)

\* Repository.list_notes_for_embedding
list_notes_for_embedding == NotesList(notes, 1)

\* The rows replace_note_embeddings(note_id, chunks) inserts.
NewRows(note_id, chunks) ==
    {Row(note_id, i - 1, chunks[i].text, chunks[i].blob) : i \in 1..Len(chunks)}

IxLocalsIdle ==
    /\ ix_op' = "none"
    /\ ix_pc' = "idle"
    /\ progress_cb' = FALSE
    /\ ix_list' = <<>>
    /\ ix_idx' = 0
    /\ ix_note' = NoNote
    /\ ix_chunks' = <<>>
    /\ ix_ci' = 0
    /\ chunk_embeddings' = <<>>
    /\ ix_ins' = 0
    /\ ix_ret' = NoReturn
    /\ progress' = <<>>
    /\ before' = {}
    /\ replace_old' = {}
    /\ observed' = NoObservation

\* No call runs on the indexing handle and no reader has looked.
HandlesIdle ==
    /\ tx = NoTx
    /\ ix_op = "none"
    /\ ix_pc = "idle"
    /\ progress_cb = FALSE
    /\ ix_list = <<>>
    /\ ix_idx = 0
    /\ ix_note = NoNote
    /\ ix_chunks = <<>>
    /\ ix_ci = 0
    /\ chunk_embeddings = <<>>
    /\ ix_ins = 0
    /\ ix_ret = NoReturn
    /\ progress = <<>>
    /\ before = {}
    /\ replace_old = {}
    /\ observed = NoObservation

\* A new database file: the schema script creates empty tables.
StoreInit ==
    /\ notes = <<>>
    /\ next_id = 1
    /\ embeddings = {}
    /\ HandlesIdle

ixLocals == <<ix_op, ix_pc, progress_cb, ix_list, ix_idx, ix_note, ix_chunks, ix_ci,
              chunk_embeddings, ix_ins, ix_ret, progress, replace_old>>

\* -- note CRUD on the application's own handle; each method commits before
\*    it returns, and waits while another handle holds the write lock --

\* Repository.create_note
create_note ==
    /\ ~tx.open
    /\ next_id <= MaxNotes
    /\ \E n \in NotePool : notes' = (next_id :> n) @@ notes
    /\ next_id' = next_id + 1
    /\ UNCHANGED <<embeddings, tx, ixLocals, before, observed>>
    /\ UNCHANGED outsideStore

\* The deletion of a note without the cascade to its chunks.
delete_note_NoCascade ==
    /\ ~tx.open
    /\ \E id \in DOMAIN notes :
          /\ notes' = [i \in (DOMAIN notes) \ {id} |-> notes[i]]
          /\ before' = before \ RowsOf(before, id)
    /\ UNCHANGED <<next_id, embeddings, tx, ixLocals, observed>>
    /\ UNCHANGED outsideStore

\* Repository.delete_note; ON DELETE CASCADE removes the note's chunks.
delete_note ==
    /\ ~tx.open
    /\ \E id \in DOMAIN notes :
          /\ notes' = [i \in (DOMAIN notes) \ {id} |-> notes[i]]
          /\ embeddings' = embeddings \ RowsOf(embeddings, id)
          /\ before' = before \ RowsOf(before, id)
    /\ UNCHANGED <<next_id, tx, ixLocals, observed>>
    /\ UNCHANGED outsideStore

\* -- RagIndex.index_note(note_id) --

\* note = self._repo.get_note(note_id); missing -> return False;
\* otherwise text, chunks (index.py:94-106).
IndexNoteCall ==
    /\ ix_pc = "idle"
    /\ \E id \in NoteIds :
          IF id \notin DOMAIN notes
          THEN /\ ix_op' = "index_note"
               /\ ix_pc' = "returned"
               /\ ix_ret' = [ok |-> FALSE, total |-> 0]
               /\ ix_note' = [NoNote EXCEPT !.id = id]
               /\ UNCHANGED <<ix_chunks>>
          ELSE /\ ix_op' = "index_note"
               /\ ix_pc' = "embed"
               /\ ix_note' = [id |-> id, title |-> notes[id].title,
                              content |-> notes[id].content]
               /\ ix_chunks' = chunk_text(note_text(notes[id]), CHUNK_MAX_CHARS)
               /\ ix_ret' = NoReturn
    /\ before' = embeddings
    /\ progress' = <<>>
    /\ UNCHANGED <<notes, next_id, embeddings, tx, progress_cb, ix_list, ix_idx, ix_ci,
                   chunk_embeddings, ix_ins, replace_old, observed>>
    /\ UNCHANGED outsideStore

\* One turn of `for chunk in chunks` (index.py:107-113, 144-152): embed, skip
\* the chunk when the vector is empty, else serialise and collect.
EmbedChunk ==
    /\ ix_pc = "embed"
    /\ ix_ci < Len(ix_chunks)
    /\ \E vector \in EmbedOutcomes :
          chunk_embeddings' =
             IF vector = <<>> THEN chunk_embeddings
             ELSE Append(chunk_embeddings,
                         [text |-> ix_chunks[ix_ci + 1], blob |-> serialize_vector(vector)])
    /\ ix_ci' = ix_ci + 1
    /\ UNCHANGED <<notes, next_id, embeddings, tx, ix_op, ix_pc, progress_cb, ix_list,
                   ix_idx, ix_note, ix_chunks, ix_ins, ix_ret, progress, before,
                   replace_old, observed>>
    /\ UNCHANGED outsideStore

\* `if chunk_embeddings:` taken the wrong way round for the empty list:
\* the store is rewritten although nothing was embedded.
AfterEmbed_AlwaysReplace ==
    /\ ix_pc = "embed"
    /\ ix_ci = Len(ix_chunks)
    /\ ix_pc' = "replace"
    /\ UNCHANGED <<notes, next_id, embeddings, tx, ix_op, progress_cb, ix_list, ix_idx,
                   ix_note, ix_chunks, ix_ci, chunk_embeddings, ix_ins, ix_ret,
                   progress, before, replace_old, observed>>
    /\ UNCHANGED outsideStore

\* `if chunk_embeddings:` (index.py:115-124, 153-155): replace the note's
\* chunks, or leave the store alone (index_note then returns False).
AfterEmbed ==
    /\ ix_pc = "embed"
    /\ ix_ci = Len(ix_chunks)
    /\ IF chunk_embeddings # <<>>
       THEN ix_pc' = "replace" /\ UNCHANGED ix_ret
       ELSE IF ix_op = "index_note"
            THEN ix_pc' = "returned" /\ ix_ret' = [ok |-> FALSE, total |-> 0]
            ELSE ix_pc' = "progress" /\ UNCHANGED ix_ret
    /\ UNCHANGED <<notes, next_id, embeddings, tx, ix_op, progress_cb, ix_list, ix_idx,
                   ix_note, ix_chunks, ix_ci, chunk_embeddings, ix_ins, progress,
                   before, replace_old, observed>>
    /\ UNCHANGED outsideStore

\* -- Repository.replace_note_embeddings(note_id, chunks) --

\* The DELETE with every statement committed on its own (autocommit).
ReplaceDelete_Autocommit ==
    /\ ix_pc = "replace"
    /\ embeddings' = embeddings \ RowsOf(embeddings, ix_note.id)
    /\ tx' = [open |-> TRUE, rows |-> embeddings \ RowsOf(embeddings, ix_note.id)]
    /\ replace_old' = RowsOf(embeddings, ix_note.id)
    /\ ix_ins' = 0
    /\ ix_pc' = "insert"
    /\ UNCHANGED <<notes, next_id, ix_op, progress_cb, ix_list, ix_idx, ix_note,
                   ix_chunks, ix_ci, chunk_embeddings, ix_ret, progress, before, observed>>
    /\ UNCHANGED outsideStore

\* DELETE FROM note_embeddings WHERE note_id = ? (repository.py:299).  The
\* sqlite3 connection opens a transaction before the first DML statement,
\* so the deletion stays private to the handle until commit().
ReplaceDelete ==
    /\ ix_pc = "replace"
    /\ tx' = [open |-> TRUE, rows |-> embeddings \ RowsOf(embeddings, ix_note.id)]
    /\ replace_old' = RowsOf(embeddings, ix_note.id)
    /\ ix_ins' = 0
    /\ ix_pc' = "insert"
    /\ UNCHANGED <<notes, next_id, embeddings, ix_op, progress_cb, ix_list, ix_idx,
                   ix_note, ix_chunks, ix_ci, chunk_embeddings, ix_ret, progress,
                   before, observed>>
    /\ UNCHANGED outsideStore

\* One INSERT of `for idx, (chunk_text, vector_blob) in enumerate(chunks)`
\* (repository.py:300-309); foreign_keys is ON for every connection.
ReplaceInsert ==
    /\ ix_pc = "insert"
    /\ ix_ins < Len(chunk_embeddings)
    /\ IF ix_note.id \notin DOMAIN notes
       THEN \* FOREIGN KEY(note_id) fails: sqlite3.IntegrityError
            /\ ix_pc' = "raised"
            /\ UNCHANGED <<tx, ix_ins>>
       ELSE /\ tx' = [tx EXCEPT !.rows = @ \cup
                        {Row(ix_note.id, ix_ins, chunk_embeddings[ix_ins + 1].text,
                             chunk_embeddings[ix_ins + 1].blob)}]
            /\ ix_ins' = ix_ins + 1
            /\ UNCHANGED ix_pc
    /\ UNCHANGED <<notes, next_id, embeddings, ix_op, progress_cb, ix_list, ix_idx,
                   ix_note, ix_chunks, ix_ci, chunk_embeddings, ix_ret, progress,
                   before, replace_old, observed>>
    /\ UNCHANGED outsideStore

\* self._conn.commit() (repository.py:310); index_note then returns True,
\* build_index goes on to the progress callback.
ReplaceCommit ==
    /\ ix_pc = "insert"
    /\ ix_ins = Len(chunk_embeddings)
    /\ embeddings' = tx.rows
    /\ tx' = NoTx
    /\ IF ix_op = "index_note"
       THEN ix_pc' = "returned" /\ ix_ret' = [ok |-> TRUE, total |-> 0]
       ELSE ix_pc' = "progress" /\ UNCHANGED ix_ret
    /\ UNCHANGED <<notes, next_id, ix_op, progress_cb, ix_list, ix_idx, ix_note,
                   ix_chunks, ix_ci, chunk_embeddings, ix_ins, progress, before,
                   replace_old, observed>>
    /\ UNCHANGED outsideStore

\* -- RagIndex.build_index(progress_cb) --

\* notes = self._repo.list_notes_for_embedding(); total = len(notes)
BuildIndexCall ==
    /\ ix_pc = "idle"
    /\ \E cb \in BOOLEAN : progress_cb' = cb
    /\ ix_op' = "build_index"
    /\ ix_list' = list_notes_for_embedding
    /\ ix_idx' = 0
    /\ ix_pc' = "clear"
    /\ ix_ret' = NoReturn
    /\ progress' = <<>>
    /\ UNCHANGED <<notes, next_id, embeddings, tx, ix_note, ix_chunks, ix_ci,
                   chunk_embeddings, ix_ins, before, replace_old, observed>>
    /\ UNCHANGED outsideStore

\* The rebuild without the clearing step.
BuildClear_Skipped ==
    /\ ix_pc = "clear"
    /\ ix_pc' = "next"
    /\ UNCHANGED <<notes, next_id, embeddings, tx, ix_op, progress_cb, ix_list, ix_idx,
                   ix_note, ix_chunks, ix_ci, chunk_embeddings, ix_ins, ix_ret,
                   progress, before, replace_old, observed>>
    /\ UNCHANGED outsideStore

\* self._repo.clear_embeddings(): DELETE FROM note_embeddings; commit
BuildClear ==
    /\ ix_pc = "clear"
    /\ embeddings' = {}
    /\ ix_pc' = "next"
    /\ UNCHANGED <<notes, next_id, tx, ix_op, progress_cb, ix_list, ix_idx, ix_note,
                   ix_chunks, ix_ci, chunk_embeddings, ix_ins, ix_ret, progress,
                   before, replace_old, observed>>
    /\ UNCHANGED outsideStore

\* Head of `for idx, note in enumerate(notes, start=1)`: take the next note
\* of the list and chunk it, or leave the loop and return total.
BuildNext ==
    /\ ix_pc = "next"
    /\ IF ix_idx < Len(ix_list)
       THEN /\ ix_idx' = ix_idx + 1
            /\ ix_note' = ix_list[ix_idx + 1]
            /\ ix_chunks' = chunk_text(note_text(ix_list[ix_idx + 1]), CHUNK_MAX_CHARS)
            /\ ix_ci' = 0
            /\ chunk_embeddings' = <<>>
            /\ ix_pc' = "embed"
            /\ UNCHANGED ix_ret
       ELSE /\ ix_pc' = "returned"
            /\ ix_ret' = [ok |-> TRUE, total |-> Len(ix_list)]
            /\ UNCHANGED <<ix_idx, ix_note, ix_chunks, ix_ci, chunk_embeddings>>
    /\ UNCHANGED <<notes, next_id, embeddings, tx, ix_op, progress_cb, ix_list, ix_ins,
                   progress, before, replace_old, observed>>
    /\ UNCHANGED outsideStore

\* if progress_cb is not None: progress_cb(idx, total, note)
BuildProgress ==
    /\ ix_pc = "progress"
    /\ progress' = IF progress_cb
                   THEN Append(progress, [current |-> ix_idx, total |-> Len(ix_list),
                                          note |-> ix_note.id])
                   ELSE progress
    /\ ix_pc' = "next"
    /\ UNCHANGED <<notes, next_id, embeddings, tx, ix_op, progress_cb, ix_list, ix_idx,
                   ix_note, ix_chunks, ix_ci, chunk_embeddings, ix_ins, ix_ret,
                   before, replace_old, observed>>
    /\ UNCHANGED outsideStore

\* The caller takes the result; the handle is free for the next call.
IxReturn ==
    /\ ix_pc = "returned"
    /\ IxLocalsIdle
    /\ UNCHANGED <<notes, next_id, embeddings, tx>>
    /\ UNCHANGED outsideStore

\* The call raised inside replace_note_embeddings; the caller closes the
\* handle (Repository.close), which rolls the open transaction back.
IxCloseAfterRaise ==
    /\ ix_pc = "raised"
    /\ tx' = NoTx
    /\ IxLocalsIdle
    /\ UNCHANGED <<notes, next_id, embeddings>>
    /\ UNCHANGED outsideStore

\* -- a reader on another handle --

\* While replace_note_embeddings runs on the indexing handle, a SELECT on
\* note_embeddings for that note on the reader's handle: it sees the
\* committed rows only.  observed keeps the latest result (with the old and
\* the new chunk set of that moment) until the indexing call is over.
ReaderSelect ==
    /\ ix_pc = "insert"
    /\ observed' = [note |-> ix_note.id, rows |-> RowsOf(embeddings, ix_note.id),
                    old |-> replace_old,
                    new |-> NewRows(ix_note.id, chunk_embeddings)]
    /\ observed' # observed
    /\ UNCHANGED <<notes, next_id, embeddings, tx, ixLocals, before>>
    /\ UNCHANGED outsideStore

StoreNext ==
    \/ create_note
    \/ delete_note
    \/ IndexNoteCall
    \/ EmbedChunk
    \/ AfterEmbed
    \/ ReplaceDelete
    \/ ReplaceInsert
    \/ ReplaceCommit
    \/ BuildIndexCall
    \/ BuildClear
    \/ BuildNext
    \/ BuildProgress
    \/ IxReturn
    \/ IxCloseAfterRaise
    \/ ReaderSelect

\* ------------------------------------------------------------------------
\* Background reindex
\* ------------------------------------------------------------------------

\* Indices of the workers of ws that are at one of the positions in phases.
WorkersAt(ws, phases) == {i \in DOMAIN ws : ws[i] \in phases}

MoveWorker(ws, i, phase) == [ws EXCEPT ![i] = phase]

\* _ReindexState() and NotesWindow.__init__
ReindexInit ==
    /\ api_running = FALSE
    /\ api_current = 0
    /\ api_total = 0
    /\ api_error = "none"
    /\ api_spawn = 0
    /\ api_workers = <<>>
    /\ api_requests = 0
    /\ desk_running = FALSE
    /\ desk_workers = <<>>
    /\ desk_idle = <<>>
    /\ desk_requests = 0

apiVars == <<api_running, api_current, api_total, api_error, api_spawn, api_workers,
             api_requests>>

deskVars == <<desk_running, desk_workers, desk_idle, desk_requests>>

\* The locked block without the `if reindex_state.running: return`.
ApiStartReindex_Unguarded ==
    /\ api_requests < MaxRequests
    /\ api_requests' = api_requests + 1
    /\ api_running' = TRUE
    /\ api_current' = 0
    /\ api_total' = 0
    /\ api_error' = "none"
    /\ api_spawn' = api_spawn + 1
    /\ UNCHANGED <<api_workers, deskVars>>
    /\ UNCHANGED outsideReindex

\* _start_reindex, the block under reindex_state.lock (api/main.py:249-255).
\* Request handlers run on a thread pool; the lock makes the block one step.
ApiStartReindex ==
    /\ api_requests < MaxRequests
    /\ api_requests' = api_requests + 1
    /\ IF api_running
       THEN UNCHANGED <<api_running, api_current, api_total, api_error, api_spawn>>
       ELSE /\ api_running' = TRUE
            /\ api_current' = 0
            /\ api_total' = 0
            /\ api_error' = "none"
            /\ api_spawn' = api_spawn + 1
    /\ UNCHANGED <<api_workers, deskVars>>
    /\ UNCHANGED outsideReindex

\* threading.Thread(target=worker, daemon=True).start() (api/main.py:277)
ApiThreadStart ==
    /\ api_spawn > 0
    /\ api_spawn' = api_spawn - 1
    /\ api_workers' = Append(api_workers, "setup")
    /\ UNCHANGED <<api_running, api_current, api_total, api_error, api_requests,
                   deskVars>>
    /\ UNCHANGED outsideReindex

\* worker(): service = RagService(Repository(_default_db_path())) stands
\* before the try; RagService.__init__(self, repo, config) has no default
\* for config (service.py:13), so the call raises TypeError and the thread
\* ends without entering the try/except/finally of lines 259-275.
ApiWorkerSetup ==
    /\ \E w \in WorkersAt(api_workers, {"setup"}) :
          api_workers' = MoveWorker(api_workers, w, "dead")
    /\ UNCHANGED <<api_running, api_current, api_total, api_error, api_spawn,
                   api_requests, deskVars>>
    /\ UNCHANGED outsideReindex

\* NotesWindow._start_reindex (desktop/main.py:1073-1077); runs on the GTK
\* main thread, which handles one callback at a time.  The window is given a
\* service at construction and _on_config_saved never stores None.
DeskStartReindex ==
    /\ desk_requests < MaxRequests
    /\ desk_requests' = desk_requests + 1
    /\ IF desk_running
       THEN UNCHANGED <<desk_running, desk_workers>>
       ELSE /\ desk_running' = TRUE
            /\ desk_workers' = Append(desk_workers, "clone")
    /\ UNCHANGED <<desk_idle, apiVars>>
    /\ UNCHANGED outsideReindex

\* _reindex_worker: rag = self._rag_service.clone_for_thread() stands before
\* the try; when Repository(self._db_path) or RagService(...) raises, the
\* thread ends and _on_reindex_done is never queued.
DeskWorkerClone ==
    /\ \E w \in WorkersAt(desk_workers, {"clone"}), phase \in {"build", "dead"} :
          desk_workers' = MoveWorker(desk_workers, w, phase)
    /\ UNCHANGED <<desk_running, desk_idle, desk_requests, apiVars>>
    /\ UNCHANGED outsideReindex

\* rag.build_index() returns or raises; either way _on_reindex_done is
\* queued for the main thread with the error text ("" on success).
DeskWorkerBuild ==
    /\ \E w \in WorkersAt(desk_workers, {"build"}), error \in {"", "e"} :
          /\ desk_workers' = MoveWorker(desk_workers, w, "close")
          /\ desk_idle' = Append(desk_idle, error)
    /\ UNCHANGED <<desk_running, desk_requests, apiVars>>
    /\ UNCHANGED outsideReindex

\* finally: rag.close(); the thread ends.
DeskWorkerClose ==
    /\ \E w \in WorkersAt(desk_workers, {"close"}) :
          desk_workers' = MoveWorker(desk_workers, w, "dead")
    /\ UNCHANGED <<desk_running, desk_idle, desk_requests, apiVars>>
    /\ UNCHANGED outsideReindex

\* NotesWindow._on_reindex_done, run by the main loop
DeskOnReindexDone ==
    /\ desk_idle # <<>>
    /\ desk_running' = FALSE
    /\ desk_idle' = Tail(desk_idle)
    /\ UNCHANGED <<desk_workers, desk_requests, apiVars>>
    /\ UNCHANGED outsideReindex

ReindexNext ==
    \/ ApiStartReindex
    \/ ApiThreadStart
    \/ ApiWorkerSetup
    \/ DeskStartReindex
    \/ DeskWorkerClone
    \/ DeskWorkerBuild
    \/ DeskWorkerClose
    \/ DeskOnReindexDone

\* ------------------------------------------------------------------------
\* ChunkSelector
\* ------------------------------------------------------------------------

\* The characters of str.strip(".,!?;:")
Punctuation == {".", ",", "!", "?", ";", ":"}

RECURSIVE LStripChars(_, _)
LStripChars(t, chars) ==
    IF t # <<>> /\ Head(t) \in chars THEN LStripChars(Tail(t), chars) ELSE t

RECURSIVE RStripChars(_, _)
RStripChars(t, chars) ==
    IF t # <<>> /\ t[Len(t)] \in chars
    THEN RStripChars(SubSeq(t, 1, Len(t) - 1), chars)
    ELSE t

\* str.strip(chars)
StripChars(t, chars) == RStripChars(LStripChars(t, chars), chars)

\* str.split()[0] of a text that holds a non-whitespace character
RECURSIVE TakeWord(_)
TakeWord(t) ==
    IF t = <<>> \/ IsSpace(Head(t)) THEN <<>> ELSE <<Head(t)>> \o TakeWord(Tail(t))

FirstWord(t) == TakeWord(LStrip(t))

\* ChunkSelector._parse_response
parse_response(response) ==
    IF Strip(response) = <<>>
    THEN FALSE
    ELSE Upper(StripChars(FirstWord(Strip(response)), Punctuation)) = <<"Y", "E", "S">>

\* Texts the model may answer with.
ResponsePool ==
    { <<>>,
      <<" ">>,
      <<"Y", "E", "S">>,
      <<"y", "e", "s", ".">>,
      <<" ", "Y", "e", "s", NL>>,
      <<"y", "e", "s", ",", " ", "n", "o">>,
      <<"n", "o">>,
      <<"y", "e", "s", "t", "e", "r", "d", "a", "y">>,
      <<".", "y", "e", "s", "!">>,
      <<"n", "o", " ", "y", "e", "s">>,
      <<"y", " ", "e", "s">> }

\* The two LLMClient implementations create_llm_client chooses between.
ClientVariants == {"ollama", "openai"}

\* What the HTTP exchange of one generate call does: it fails (urlopen or
\* json.loads raises) or it delivers the text of the model.
TransportOutcomes ==
    {[failed |-> FALSE, text |-> r] : r \in ResponsePool}
        \cup {[failed |-> TRUE, text |-> <<>>]}

\* OllamaClient.generate: _post_json is called outside any try block.
OllamaGenerate(t) ==
    IF t.failed THEN [raised |-> TRUE, text |-> <<>>]
    ELSE [raised |-> FALSE, text |-> t.text]

\* OpenAICompatibleClient.generate: `except Exception: return ""`.
OpenAIGenerate(t) ==
    IF t.failed THEN [raised |-> FALSE, text |-> <<>>]
    ELSE [raised |-> FALSE, text |-> t.text]

\* self._client.generate(...) for the client variant in use.
client_generate(variant, t) ==
    IF variant = "openai" THEN OpenAIGenerate(t) ELSE OllamaGenerate(t)

\* What self._client.generate(user, system=system) can do: return a text or
\* raise.
GenerateOutcomes ==
    {client_generate(v, t) : v \in ClientVariants, t \in TransportOutcomes}

SelectInit ==
    /\ sel_pc = "call"
    /\ sel_chunks \in {[i \in 1..n |-> Doc(((i - 1) % 2) + 1)] : n \in 0..MaxChunks}
    /\ sel_i = 0
    /\ relevant = <<>>
    /\ sel_llm = <<>>
    /\ sel_ret = <<>>
    /\ sel_client \in ClientVariants
    /\ sel_transport = <<>>

SelectIdle ==
    /\ sel_pc = "idle"
    /\ sel_chunks = <<>>
    /\ sel_i = 0
    /\ relevant = <<>>
    /\ sel_llm = <<>>
    /\ sel_ret = <<>>
    /\ sel_client = "ollama"
    /\ sel_transport = <<>>

\* select: `if not chunks: return []`, else enter the list comprehension.
SelectCall ==
    /\ sel_pc = "call"
    /\ sel_pc' = IF sel_chunks = <<>> THEN "returned" ELSE "loop"
    /\ UNCHANGED <<sel_chunks, sel_i, relevant, sel_llm, sel_ret, sel_client, sel_transport>>
    /\ UNCHANGED outsideSelect

\* is_relevant with `except Exception: return False`.
IsRelevant_FailClosed ==
    /\ sel_pc = "loop"
    /\ sel_i < Len(sel_chunks)
    /\ \E t \in TransportOutcomes :
          LET out == client_generate(sel_client, t)
          IN /\ sel_transport' = Append(sel_transport, t.failed)
             /\ sel_llm' = Append(sel_llm, out)
             /\ relevant' = IF ~out.raised /\ parse_response(out.text)
                            THEN Append(relevant, sel_chunks[sel_i + 1])
                            ELSE relevant
    /\ sel_i' = sel_i + 1
    /\ UNCHANGED <<sel_pc, sel_chunks, sel_ret, sel_client>>
    /\ UNCHANGED outsideSelect

\* One turn of `[c for c in chunks if self.is_relevant(c, question)]`:
\* is_relevant asks the LLM and parses the answer, or returns True when the
\* call raised (chunk_selector.py:76-93).
IsRelevant ==
    /\ sel_pc = "loop"
    /\ sel_i < Len(sel_chunks)
    /\ \E t \in TransportOutcomes :
          LET out == client_generate(sel_client, t)
          IN /\ sel_transport' = Append(sel_transport, t.failed)
             /\ sel_llm' = Append(sel_llm, out)
             /\ relevant' = IF out.raised \/ parse_response(out.text)
                            THEN Append(relevant, sel_chunks[sel_i + 1])
                            ELSE relevant
    /\ sel_i' = sel_i + 1
    /\ UNCHANGED <<sel_pc, sel_chunks, sel_ret, sel_client>>
    /\ UNCHANGED outsideSelect

\* return relevant
SelectReturn ==
    /\ sel_pc = "loop"
    /\ sel_i = Len(sel_chunks)
    /\ sel_pc' = "returned"
    /\ sel_ret' = relevant
    /\ UNCHANGED <<sel_chunks, sel_i, relevant, sel_llm, sel_client, sel_transport>>
    /\ UNCHANGED outsideSelect

SelectNext ==
    \/ SelectCall
    \/ IsRelevant
    \/ SelectReturn

\* ------------------------------------------------------------------------
\* QueryExpander
\* ------------------------------------------------------------------------

\* Longest text drawn character by character for the LLM's answer.
MaxRaw == 4

MAX_TARGET_COUNT == 8

\* _WHITESPACE_RE.sub(" ", value): every maximal run of whitespace becomes
\* one blank.
RECURSIVE CollapseWs(_)
CollapseWs(t) ==
    IF t = <<>> THEN <<>>
    ELSE IF IsSpace(Head(t)) THEN <<" ">> \o CollapseWs(LStrip(t))
         ELSE <<Head(t)>> \o CollapseWs(Tail(t))

\* QueryExpander._normalize_query
normalize_query(value) == Strip(CollapseWs(value))

\* QueryExpander._clamp_target_count
clamp_target_count(value) == Max(1, Min(MAX_TARGET_COUNT, value))

\* str.split(sep) for a one-character separator.  On a stripped, non-empty
\* text str.splitlines() gives the same parts as split("\n").
RECURSIVE SplitOn(_, _, _)
SplitOn(text, sep, current) ==
    IF text = <<>> THEN <<current>>
    ELSE IF Head(text) = sep
         THEN <<current>> \o SplitOn(Tail(text), sep, <<>>)
         ELSE SplitOn(Tail(text), sep, Append(current, Head(text)))

IsDigit(c) == c \in {"0", "1", "2", "3", "4", "5", "6", "7", "8", "9"}

RECURSIVE DropDigits(_)
DropDigits(t) == IF t # <<>> /\ IsDigit(Head(t)) THEN DropDigits(Tail(t)) ELSE t

\* _LEADING_BULLET_RE.sub("", line): the pattern is anchored at the start of
\* the line and is either digits with at most one of `).:-`, or one of
\* `-`, `*`, the bullet character; then any whitespace.
strip_leading_bullet(line) ==
    IF line = <<>> THEN line
    ELSE IF IsDigit(Head(line))
         THEN LET rest == DropDigits(line)
              IN LStrip(IF rest # <<>> /\ Head(rest) \in {")", ".", ":", "-"}
                        THEN Tail(rest) ELSE rest)
         ELSE IF Head(line) \in {"-", "*"} THEN LStrip(Tail(line))
              ELSE line

NonEmptyOnly(parts) == SelectSeq(parts, LAMBDA x : x # <<>>)

\* QueryExpander._parse_output
parse_output(raw) ==
    LET stripped == Strip(raw)
        lines == SplitOn(stripped, NL, <<>>)
        candidates ==
            NonEmptyOnly([i \in 1..Len(lines) |->
                normalize_query(
                    StripChars(StripChars(Strip(strip_leading_bullet(lines[i])),
                                          {"\""}), {"'"}))])
        parts == SplitOn(stripped, ";", <<>>)
        fallback == NonEmptyOnly([i \in 1..Len(parts) |-> normalize_query(parts[i])])
    IN IF stripped = <<>> THEN <<>>
       ELSE IF candidates # <<>> THEN candidates
            ELSE fallback

\* The loop of _dedupe_stable; casefold is lower() on the model's letters.
RECURSIVE DedupeLoop(_, _, _)
DedupeLoop(values, seen, result) ==
    IF values = <<>> THEN result
    ELSE LET normalized == normalize_query(Head(values))
             dedupe_key == Lower(normalized)
         IN IF normalized = <<>> \/ dedupe_key \in seen
            THEN DedupeLoop(Tail(values), seen, result)
            ELSE DedupeLoop(Tail(values), seen \cup {dedupe_key},
                            Append(result, normalized))

\* QueryExpander._dedupe_stable
dedupe_stable(values) == DedupeLoop(values, {}, <<>>)

NoLlmCall == [called |-> FALSE, raised |-> FALSE, text |-> <<>>]

\* Characters of the LLM answers enumerated exhaustively.
RawAlphabet == {" ", NL, "t", "T", ";", "-", "1", "\""}

\* An answer with more alternatives than any target count allows.
LongAnswer ==
    <<"t", NL, "e", NL, "s", NL, "n", NL, "o", NL, "y", NL,
      "t", "t", NL, "e", "e", NL, "s", "s">>

\* What self._client.generate(prompt) can do for the expander.
ExpanderLlmOutcomes ==
    {[called |-> TRUE, raised |-> FALSE, text |-> r] :
        r \in SeqsUpTo(RawAlphabet, MaxRaw) \cup {LongAnswer}}
        \cup {[called |-> TRUE, raised |-> TRUE, text |-> <<>>]}

ExpandQuestionPool ==
    { <<>>, <<" ", NL>>, <<"t">>, <<" ", "t", " ">>, <<"T", " ", NL, "s">> }

TargetCountPool == {0, 1, 2, 3, 9}

ExpandInit ==
    /\ x_pc = "call"
    /\ x_question \in ExpandQuestionPool
    /\ x_target \in TargetCountPool
    /\ x_base = <<>>
    /\ x_capped = 0
    /\ x_llm = NoLlmCall
    /\ x_ret = <<>>

ExpandIdle ==
    /\ x_pc = "idle"
    /\ x_question = <<>>
    /\ x_target = 0
    /\ x_base = <<>>
    /\ x_capped = 0
    /\ x_llm = NoLlmCall
    /\ x_ret = <<>>

\* expand up to the LLM call (query_expander.py:20-41): a blank question
\* gives [], a target count of one gives [base_query], both without a call.
ExpandCall ==
    /\ x_pc = "call"
    /\ x_base' = normalize_query(x_question)
    /\ x_capped' = clamp_target_count(x_target)
    /\ IF x_base' = <<>>
       THEN x_pc' = "returned" /\ x_ret' = <<>>
       ELSE IF x_capped' = 1
            THEN x_pc' = "returned" /\ x_ret' = <<x_base'>>
            ELSE x_pc' = "generate" /\ x_ret' = x_ret
    /\ UNCHANGED <<x_question, x_target, x_llm>>
    /\ UNCHANGED outsideExpand

\* expand from the LLM call on, returning `deduped` whole.
ExpandFinish_NoTruncation ==
    /\ x_pc = "generate"
    /\ \E out \in ExpanderLlmOutcomes :
          /\ x_llm' = out
          /\ x_ret' = IF out.raised THEN <<x_base>>
                      ELSE LET deduped == dedupe_stable(<<x_base>> \o parse_output(out.text))
                           IN IF deduped = <<>> THEN <<x_base>> ELSE deduped
    /\ x_pc' = "returned"
    /\ UNCHANGED <<x_question, x_target, x_base, x_capped>>
    /\ UNCHANGED outsideExpand

\* expand from the LLM call on (query_expander.py:42-59).
ExpandFinish ==
    /\ x_pc = "generate"
    /\ \E out \in ExpanderLlmOutcomes :
          /\ x_llm' = out
          /\ x_ret' = IF out.raised THEN <<x_base>>
                      ELSE LET deduped == dedupe_stable(<<x_base>> \o parse_output(out.text))
                           IN IF deduped = <<>> THEN <<x_base>>
                              ELSE SubSeq(deduped, 1, Min(x_capped, Len(deduped)))
    /\ x_pc' = "returned"
    /\ UNCHANGED <<x_question, x_target, x_base, x_capped>>
    /\ UNCHANGED outsideExpand

ExpandNext ==
    \/ ExpandCall
    \/ ExpandFinish

\* ------------------------------------------------------------------------
\* RagIndex.query
\* ------------------------------------------------------------------------

FUSION_OVERSAMPLE_FACTOR == 4

\* Smoothing constant k of reciprocal_rank_fusion.
RRF_K == 60

\* Injective sequences over all of S: the orders a result set can come in.
Orderings(S) ==
    {f \in [1..Cardinality(S) -> S] : \A i, j \in 1..Cardinality(S) : i # j => f[i] # f[j]}

\* seq[:n]
Prefix(seq, n) == SubSeq(seq, 1, Min(n, Len(seq)))

\* The note rows a search returns (id, title, content of the note).
NoteDoc(id) == [id |-> id, title |-> notes[id].title, content |-> notes[id].content]

\* vec_distance_cosine on the unit vectors of the model: 1 - a.b
CosineDistance(a, b) ==
    1 - (a[1] * b[1] + a[2] * b[2])

\* MIN(vec_distance_cosine(ne.vector, ?)) of one note
MinDistance(id, blob) ==
    LET ds == {CosineDistance(DecodeBlob(r.vector), DecodeBlob(blob)) :
                  r \in RowsOf(embeddings, id)}
    IN CHOOSE d \in ds : \A e \in ds : d <= e

\* Repository.search_notes_by_embedding(query_vector, top_k): the notes that
\* have chunks, by ascending minimal distance, at most top_k of them; notes
\* at the same distance come in any order.
search_notes_by_embedding(blob, limit) ==
    LET ids == {id \in DOMAIN notes : RowsOf(embeddings, id) # {}}
    IN {Prefix([i \in 1..Len(f) |-> NoteDoc(f[i])], limit) :
          f \in {g \in Orderings(ids) :
                   \A i, j \in 1..Len(g) :
                      i < j => MinDistance(g[i], blob) <= MinDistance(g[j], blob)}}

\* Characters the FTS5 tokenizer treats as separators (of the model's
\* alphabet): everything that is not a letter or a digit.
Separators == {" ", NL, "\t", "#", ".", ",", "!", "?", ";", ":", "<", ">", "/"}

\* str.split() / the tokenizer: the maximal runs of non-separator characters.
RECURSIVE Words(_, _, _)
Words(text, seps, current) ==
    IF text = <<>>
    THEN IF current = <<>> THEN {} ELSE {current}
    ELSE IF Head(text) \in seps
         THEN (IF current = <<>> THEN {} ELSE {current}) \cup Words(Tail(text), seps, <<>>)
         ELSE Words(Tail(text), seps, Append(current, Head(text)))

\* Tokens of the notes_fts row of a note (columns title and content).
FtsTokens(id) ==
    {Lower(w) : w \in Words(notes[id].title, Separators, <<>>)
                       \cup Words(notes[id].content, Separators, <<>>)}

\* Repository.search_notes_by_bm25(query, top_k): [] for a blank query;
\* otherwise the notes whose row holds every word of the query, in the
\* engine's rank order (any order here), at most top_k of them.  The
\* questions of the model hold letters and blanks only, so
\* _sanitize_fts_query only quotes the words.
search_notes_by_bm25(query, limit) ==
    LET words == {Lower(w) : w \in Words(query, {" ", NL, "\t"}, <<>>)}
        ids == {id \in DOMAIN notes : words \subseteq FtsTokens(id)}
    IN IF words = {}
       THEN {<<>>}
       ELSE {Prefix([i \in 1..Len(f) |-> NoteDoc(f[i])], limit) : f \in Orderings(ids)}

\* -- fusion.reciprocal_rank_fusion --

RECURSIVE RrfScale(_)
RrfScale(n) == IF n = 0 THEN 1 ELSE (RRF_K + n) * RrfScale(n - 1)

LongestList(lists) ==
    LET lens == {Len(lists[i]) : i \in DOMAIN lists} \cup {0}
    IN CHOOSE n \in lens : \A m \in lens : n >= m

RECURSIVE SumOver(_, _)
SumOver(f, S) ==
    IF S = {} THEN 0 ELSE LET x == CHOOSE y \in S : TRUE IN f[x] + SumOver(f, S \ {x})

\* The score without the reciprocal: a sum of k + rank.
RrfScore_NoReciprocal(lists, id) ==
    LET hits == {<<i, r>> \in (DOMAIN lists) \X (1..LongestList(lists)) :
                    r <= Len(lists[i]) /\ lists[i][r].id = id}
    IN SumOver([h \in hits |-> RRF_K + h[2]], hits)

\* scores[doc_id]: the sum of 1 / (k + rank) over the lists, as an integer
\* multiple of 1 / RrfScale(longest list).
RrfScore(lists, id) ==
    LET scale == RrfScale(LongestList(lists))
        hits == {<<i, r>> \in (DOMAIN lists) \X (1..LongestList(lists)) :
                    r <= Len(lists[i]) /\ lists[i][r].id = id}
    IN SumOver([h \in hits |-> scale \div (RRF_K + h[2])], hits)

\* docs[doc_id]: the entry of the first list that holds the id.
RrfDoc(lists, id) ==
    LET i == CHOOSE a \in DOMAIN lists :
                /\ \E r \in DOMAIN lists[a] : lists[a][r].id = id
                /\ \A b \in 1..(a - 1) : \A r \in DOMAIN lists[b] : lists[b][r].id # id
        r == CHOOSE x \in DOMAIN lists[i] : lists[i][x].id = id
    IN lists[i][r]

\* All documents by descending score; documents whose sums are equal come in
\* either order (the float sums of the code may differ in the last bit).
reciprocal_rank_fusion(lists) ==
    LET ids == {lists[i][r].id : <<i, r>> \in
                   {<<a, b>> \in (DOMAIN lists) \X (1..LongestList(lists)) :
                       b <= Len(lists[a])}}
    IN {[i \in 1..Len(f) |-> RrfDoc(lists, f[i])] :
          f \in {g \in Orderings(ids) :
                   \A i, j \in 1..Len(g) :
                      i < j => RrfScore(lists, g[i]) >= RrfScore(lists, g[j])}}

\* All documents by ascending score.
reciprocal_rank_fusion_Ascending(lists) ==
    LET ids == {lists[i][r].id : <<i, r>> \in
                   {<<a, b>> \in (DOMAIN lists) \X (1..LongestList(lists)) :
                       b <= Len(lists[a])}}
    IN {[i \in 1..Len(f) |-> RrfDoc(lists, f[i])] :
          f \in {g \in Orderings(ids) :
                   \A i, j \in 1..Len(g) :
                      i < j => RrfScore(lists, g[i]) <= RrfScore(lists, g[j])}}

\* Ranked lists as the searches produce them: every note at most once.
RankedListPool ==
    {l \in SeqsUpTo({Doc(1), Doc(2), Doc(3)}, 3) :
        \A i, j \in 1..Len(l) : i # j => l[i].id # l[j].id}

FusionInit ==
    /\ f_pc = "call"
    /\ f_lists \in SeqsUpTo(RankedListPool, MaxLists)
    /\ f_fused = <<>>

FusionIdle ==
    /\ f_pc = "idle"
    /\ f_lists = <<>>
    /\ f_fused = <<>>

\* fused = reciprocal_rank_fusion(ranked_lists), over ascending scores.
FusionCall_Ascending ==
    /\ f_pc = "call"
    /\ \E fused \in reciprocal_rank_fusion_Ascending(f_lists) : f_fused' = fused
    /\ f_pc' = "returned"
    /\ UNCHANGED f_lists
    /\ UNCHANGED outsideFusion

\* fused = reciprocal_rank_fusion(ranked_lists)
FusionCall ==
    /\ f_pc = "call"
    /\ \E fused \in reciprocal_rank_fusion(f_lists) : f_fused' = fused
    /\ f_pc' = "returned"
    /\ UNCHANGED f_lists
    /\ UNCHANGED outsideFusion

FusionNext == FusionCall

\* -- Repository.get_best_chunk_text(note_id, query_blob) --

\* The texts of the chunks of the note at minimal cosine distance to the
\* query; empty when the note has no stored chunk.
BestChunkTexts(id, blob) ==
    LET rows == RowsOf(embeddings, id)
        d(r) == CosineDistance(DecodeBlob(r.vector), DecodeBlob(blob))
    IN {r.chunk_text : r \in {x \in rows : \A y \in rows : d(x) <= d(y)}}

\* -- one call of RagIndex.query --

\* The rows index_note stores for a note when embed returns vecs[i] for its
\* i-th chunk.
IndexedRows(id, note, vecs) ==
    LET chunks == chunk_text(note_text(note), CHUNK_MAX_CHARS)
    IN {Row(id, i - 1, chunks[i], serialize_vector(vecs[i])) : i \in 1..Len(chunks)}

\* Databases the query runs on: empty; one indexed note; an indexed note and
\* a note created after the last indexing; two indexed notes; a note whose
\* first chunk failed to embed next to an indexed one.
QueryStores ==
    { [notes |-> <<>>, embeddings |-> {}],
      [notes |-> <<NoteA>>, embeddings |-> IndexedRows(1, NoteA, <<<<1, 0>>>>)],
      [notes |-> <<NoteB, NoteA>>,
       embeddings |-> IndexedRows(1, NoteB, <<<<1, 0>>, <<0, 1>>>>)],
      [notes |-> <<NoteA, NoteB>>,
       embeddings |-> IndexedRows(1, NoteA, <<<<0, 1>>>>)
                         \cup IndexedRows(2, NoteB, <<<<1, 0>>, <<1, 0>>>>)],
      [notes |-> <<NoteB, NoteA>>,
       embeddings |-> {Row(1, 0, <<"#", " ", "b", "c", "d">>, serialize_vector(<<0, 1>>))}
                         \cup IndexedRows(2, NoteA, <<<<0, 1>>>>)] }

\* Questions a caller asks.
QuestionInputs == { <<" ">>, <<" ", "a">>, <<"t">> }

\* Queries the expander hands back.
QuestionPool == { <<"a">>, <<"t">>, <<"z">> }

\* QueryExpander.expand returns a list of queries or raises.
ExpanderOutcomes ==
    {[raised |-> FALSE, queries |-> qs, how |-> IF qs = <<>> THEN "empty" ELSE "returned"] :
        qs \in SeqsUpTo(QuestionPool, MaxLegs)}
        \cup {[raised |-> TRUE, queries |-> <<>>, how |-> "raised"]}

\* What QueryExpander.expand(question, n) returns for n > 1 when its LLM
\* call raises or answers with an empty text (query_expander.py:42-53); a
\* blank question never gets as far as the call.
ExpandFailures(question) ==
    LET base == normalize_query(question)
        deduped(text) == dedupe_stable(<<base>> \o parse_output(text))
    IN IF base = <<>> THEN {}
       ELSE {[raised |-> FALSE, queries |-> <<base>>, how |-> "llm_raised"]}
              \cup {[raised |-> FALSE, how |-> "llm_empty",
                     queries |-> IF deduped(text) = <<>> THEN <<base>>
                                 ELSE SubSeq(deduped(text), 1, Min(2, Len(deduped(text))))] :
                       text \in {<<>>, <<" ">>}}

QueryLocalsInit ==
    /\ q_status = <<>>
    /\ expanded_questions = <<>>
    /\ q_leg = 0
    /\ q_vec = <<>>
    /\ ranked_lists = <<>>
    /\ chunk_query_blob = <<>>
    /\ q_results = <<>>
    /\ q_hi = 0
    /\ q_ret = <<>>
    /\ q_embedded = <<>>
    /\ q_searches = <<>>
    /\ q_expander = "none"

QueryInit ==
    /\ \E db \in QueryStores :
          /\ notes = db.notes
          /\ next_id = Len(db.notes) + 1
          /\ embeddings = db.embeddings
    /\ HandlesIdle
    /\ q_pc = "call"
    /\ q_question \in QuestionInputs
    /\ q_top_k \in TopKPool
    /\ effective_hybrid \in BOOLEAN
    /\ QueryLocalsInit

QueryIdle ==
    /\ q_pc = "idle"
    /\ q_question = <<>>
    /\ q_top_k = 1
    /\ effective_hybrid = FALSE
    /\ QueryLocalsInit

fetch_k == q_top_k * FUSION_OVERSAMPLE_FACTOR

\* query up to the expansion where _expand_questions falls back to no query.
ExpandQuestions_NoFallback ==
    /\ q_pc = "call"
    /\ \E out \in ExpanderOutcomes \cup ExpandFailures(q_question) :
          LET stripped_question == Strip(q_question)
              fallback == <<>>
              expanded == IF out.raised \/ out.queries = <<>> THEN fallback ELSE out.queries
          IN /\ expanded_questions' = expanded
             /\ q_expander' = out.how
             /\ IF expanded = <<>>
                THEN /\ q_pc' = "returned"
                     /\ q_status' = <<"Expanding the question">>
                     /\ UNCHANGED q_leg
                ELSE /\ q_pc' = "embed"
                     /\ q_status' = <<"Expanding the question", "Searching notes">>
                     /\ q_leg' = 1
    /\ UNCHANGED <<q_question, q_top_k, effective_hybrid, q_vec, ranked_lists,
                   chunk_query_blob, q_results, q_hi, q_ret, q_embedded, q_searches>>
    /\ UNCHANGED outsideQuery

\* query up to the expansion (index.py:172-192) and _expand_questions: the
\* stripped question stands in when the expander raises or returns nothing;
\* no query at all ends the call with [].
ExpandQuestions ==
    /\ q_pc = "call"
    /\ \E out \in ExpanderOutcomes \cup ExpandFailures(q_question) :
          LET stripped_question == Strip(q_question)
              fallback == IF stripped_question # <<>> THEN <<stripped_question>> ELSE <<>>
              expanded == IF out.raised \/ out.queries = <<>> THEN fallback ELSE out.queries
          IN /\ expanded_questions' = expanded
             /\ q_expander' = out.how
             /\ IF expanded = <<>>
                THEN /\ q_pc' = "returned"
                     /\ q_status' = <<"Expanding the question">>
                     /\ UNCHANGED q_leg
                ELSE /\ q_pc' = "embed"
                     /\ q_status' = <<"Expanding the question", "Searching notes">>
                     /\ q_leg' = 1
    /\ UNCHANGED <<q_question, q_top_k, effective_hybrid, q_vec, ranked_lists,
                   chunk_query_blob, q_results, q_hi, q_ret, q_embedded, q_searches>>
    /\ UNCHANGED outsideQuery

\* The leg whose embedding failed still runs its BM25 search.
EmbedLeg_KeepsLexicalLeg ==
    /\ q_pc = "embed"
    /\ q_leg <= Len(expanded_questions)
    /\ \E vector \in EmbedOutcomes :
          /\ q_embedded' = Append(q_embedded,
                                  [text |-> expanded_questions[q_leg], vector |-> vector])
          /\ IF vector = <<>>
             THEN /\ q_pc' = IF effective_hybrid THEN "bm25" ELSE "embed"
                  /\ q_leg' = IF effective_hybrid THEN q_leg ELSE q_leg + 1
                  /\ UNCHANGED <<q_vec, chunk_query_blob>>
             ELSE /\ q_vec' = serialize_vector(vector)
                  /\ chunk_query_blob' = IF chunk_query_blob = <<>>
                                         THEN serialize_vector(vector)
                                         ELSE chunk_query_blob
                  /\ q_pc' = "vector"
                  /\ UNCHANGED q_leg
    /\ UNCHANGED <<q_question, q_top_k, effective_hybrid, q_status, expanded_questions,
                   ranked_lists, q_results, q_hi, q_ret, q_searches>>
    /\ UNCHANGED q_expander
    /\ UNCHANGED outsideQuery

\* _collect_ranked_lists, head of a leg (index.py:299-321): embed the query;
\* an empty vector skips the leg (`continue`); the first blob becomes the
\* hydration key.
EmbedLeg ==
    /\ q_pc = "embed"
    /\ q_leg <= Len(expanded_questions)
    /\ \E vector \in EmbedOutcomes :
          /\ q_embedded' = Append(q_embedded,
                                  [text |-> expanded_questions[q_leg], vector |-> vector])
          /\ IF vector = <<>>
             THEN /\ q_leg' = q_leg + 1
                  /\ UNCHANGED <<q_pc, q_vec, chunk_query_blob>>
             ELSE /\ q_vec' = serialize_vector(vector)
                  /\ chunk_query_blob' = IF chunk_query_blob = <<>>
                                         THEN serialize_vector(vector)
                                         ELSE chunk_query_blob
                  /\ q_pc' = "vector"
                  /\ UNCHANGED q_leg
    /\ UNCHANGED <<q_question, q_top_k, effective_hybrid, q_status, expanded_questions,
                   ranked_lists, q_results, q_hi, q_ret, q_searches>>
    /\ UNCHANGED q_expander
    /\ UNCHANGED outsideQuery

\* vector_results = search_notes_by_embedding(query_blob, fetch_k);
\* ranked_lists.append(vector_results) (index.py:323-330)
VectorSearch ==
    /\ q_pc = "vector"
    /\ \E vector_results \in search_notes_by_embedding(q_vec, fetch_k) :
          ranked_lists' = Append(ranked_lists, vector_results)
    /\ q_searches' = Append(q_searches, [leg |-> q_leg, kind |-> "vector"])
    /\ IF effective_hybrid
       THEN q_pc' = "bm25" /\ UNCHANGED q_leg
       ELSE q_pc' = "embed" /\ q_leg' = q_leg + 1
    /\ UNCHANGED <<q_question, q_top_k, effective_hybrid, q_status, expanded_questions,
                   q_vec, chunk_query_blob, q_results, q_hi, q_ret, q_embedded>>
    /\ UNCHANGED q_expander
    /\ UNCHANGED outsideQuery

\* if effective_hybrid: bm25_results = search_notes_by_bm25(expanded_question,
\* fetch_k); ranked_lists.append(bm25_results) (index.py:332-343)
Bm25Search ==
    /\ q_pc = "bm25"
    /\ \E bm25_results \in search_notes_by_bm25(expanded_questions[q_leg], fetch_k) :
          ranked_lists' = Append(ranked_lists, bm25_results)
    /\ q_searches' = Append(q_searches, [leg |-> q_leg, kind |-> "bm25"])
    /\ q_pc' = "embed"
    /\ q_leg' = q_leg + 1
    /\ UNCHANGED <<q_question, q_top_k, effective_hybrid, q_status, expanded_questions,
                   q_vec, chunk_query_blob, q_results, q_hi, q_ret, q_embedded>>
    /\ UNCHANGED q_expander
    /\ UNCHANGED outsideQuery

\* After the last leg (index.py:205-226): no list -> return []; one list is
\* taken as it is, several are fused; results = fused[:top_k].
Fuse ==
    /\ q_pc = "embed"
    /\ q_leg > Len(expanded_questions)
    /\ IF ranked_lists = <<>>
       THEN /\ q_pc' = "returned"
            /\ UNCHANGED q_results
       ELSE /\ \E fused \in (IF Len(ranked_lists) = 1
                             THEN {ranked_lists[1]}
                             ELSE reciprocal_rank_fusion(ranked_lists)) :
                  q_results' = Prefix(fused, q_top_k)
            /\ q_pc' = "hydrate"
    /\ UNCHANGED <<q_question, q_top_k, effective_hybrid, q_status, expanded_questions,
                   q_leg, q_vec, ranked_lists, chunk_query_blob, q_hi, q_ret,
                   q_embedded, q_searches>>
    /\ UNCHANGED q_expander
    /\ UNCHANGED outsideQuery

\* One turn of the loop of _hydrate_chunk_content (index.py:357-363): the
\* result's content becomes the best chunk text unless the store has none.
HydrateResult ==
    /\ q_pc = "hydrate"
    /\ chunk_query_blob # <<>>
    /\ q_hi < Len(q_results)
    /\ LET texts == BestChunkTexts(q_results[q_hi + 1].id, chunk_query_blob)
       IN IF texts = {}
          THEN UNCHANGED q_results
          ELSE \E best \in texts :
                  q_results' = [q_results EXCEPT ![q_hi + 1].content = best]
    /\ q_hi' = q_hi + 1
    /\ UNCHANGED <<q_pc, q_question, q_top_k, effective_hybrid, q_status,
                   expanded_questions, q_leg, q_vec, ranked_lists, chunk_query_blob,
                   q_ret, q_embedded, q_searches>>
    /\ UNCHANGED q_expander
    /\ UNCHANGED outsideQuery

\* return results
QueryReturn ==
    /\ q_pc = "hydrate"
    /\ chunk_query_blob = <<>> \/ q_hi = Len(q_results)
    /\ q_ret' = q_results
    /\ q_pc' = "returned"
    /\ UNCHANGED <<q_question, q_top_k, effective_hybrid, q_status, expanded_questions,
                   q_leg, q_vec, ranked_lists, chunk_query_blob, q_results, q_hi,
                   q_embedded, q_searches>>
    /\ UNCHANGED q_expander
    /\ UNCHANGED outsideQuery

QueryNext ==
    \/ ExpandQuestions
    \/ EmbedLeg
    \/ VectorSearch
    \/ Bm25Search
    \/ Fuse
    \/ HydrateResult
    \/ QueryReturn

\* ------------------------------------------------------------------------
\* RagService.ask
\* ------------------------------------------------------------------------

\* _split_thinking(text) -> (answer, thinking)
split_thinking(text) ==
    LET lower == Lower(text)
        start == Find(lower, OpenThink)
        end == Find(lower, CloseThink)
    IN IF start = 0 \/ end = 0 \/ end <= start
       THEN [answer |-> text, thinking |-> EmptyStr]
       ELSE [answer |-> Strip(SubSeq(text, 1, start - 1)
                               \o SubSeq(text, end + Len(CloseThink), Len(text))),
             thinking |-> Strip(SubSeq(text, start + Len(OpenThink), end - 1))]

\* Completions the model may send back to the generate node.
AskCompletionPool ==
    { <<>>,
      <<"a", "b">>,
      OpenThink \o <<"a">> \o CloseThink \o <<"b">>,
      <<"x", "<", "T", "h", "i", "n", "k", ">", " ", "y", "<", "/", "t", "h", "i", "n", "k", ">", "z">>,
      CloseThink \o OpenThink,
      OpenThink \o <<"a">> }

\* The HTTP exchange of the generate call fails or delivers a completion.
AskTransportOutcomes ==
    {[failed |-> FALSE, text |-> r] : r \in AskCompletionPool}
        \cup {[failed |-> TRUE, text |-> <<>>]}

NoAskReturn == [kind |-> "none", at |-> "", answer |-> EmptyStr, thinking |-> EmptyStr,
             sources |-> <<>>]

Raised(where) == [NoAskReturn EXCEPT !.kind = "raised", !.at = where]

AskInit ==
    /\ a_pc = "start"
    /\ a_transport \in AskTransportOutcomes
    /\ a_entry_config = NoConfig
    /\ a_contexts = <<>>
    /\ a_ret = NoAskReturn

AskIdle ==
    /\ a_pc = "idle"
    /\ a_transport = [failed |-> FALSE, text |-> <<>>]
    /\ a_entry_config = NoConfig
    /\ a_contexts = <<>>
    /\ a_ret = NoAskReturn

\* ask builds the graph on first use and invokes it; the retrieve node calls
\* index.query(state["question"]).
AskEnter ==
    /\ a_pc = "start"
    /\ a_entry_config' = config
    /\ a_pc' = "retrieving"
    /\ UNCHANGED <<a_transport, a_contexts, a_ret>>
    /\ UNCHANGED outsideAsk

\* The retrieve node returns {"question", "contexts"}.
AskRetrieve ==
    /\ a_pc = "retrieving"
    /\ \E ctxs \in ContextPool : a_contexts' = ctxs
    /\ a_pc' = "generating"
    /\ UNCHANGED <<a_transport, a_entry_config, a_ret>>
    /\ UNCHANGED outsideAsk

\* index.query raises inside the retrieve node; invoke lets it through.
AskRetrieveRaises ==
    /\ a_pc = "retrieving"
    /\ a_ret' = Raised("retrieve")
    /\ a_pc' = "raised"
    /\ UNCHANGED <<a_transport, a_entry_config, a_contexts>>
    /\ UNCHANGED outsideAsk

\* The generate node calls client.generate(user_prompt, system=system) on
\* the OllamaClient the service constructs; then ask splits the answer and
\* truncates the titles with the top_k the shared Config holds now
\* (service.py:41-43).
AskGenerate ==
    /\ a_pc = "generating"
    /\ LET out == OllamaGenerate(a_transport)
           split == split_thinking(out.text)
       IN IF out.raised
          THEN /\ a_ret' = Raised("generate")
               /\ a_pc' = "raised"
          ELSE /\ a_ret' = [kind |-> "returned", at |-> "",
                            answer |-> split.answer, thinking |-> split.thinking,
                            sources |-> SourcesOf(a_contexts, config.top_k)]
               /\ a_pc' = "returned"
    /\ UNCHANGED <<a_transport, a_entry_config, a_contexts>>
    /\ UNCHANGED outsideAsk

\* One query of the service, streaming or not, next to the preferences
\* window that may change the shared Config at any moment.
ServiceLlmPool == { <<>>, << <<"a", "b">> >>, << OpenThink, <<"c">> >> }

ServiceStreamInit ==
    /\ s_pc = "start"
    /\ llm \in ServiceLlmPool
    /\ pos = 0
    /\ chunk = EmptyStr
    /\ pending = EmptyStr
    /\ in_think = FALSE
    /\ status_updates = <<>>
    /\ status_idx = 0
    /\ sources = <<>>
    /\ events = <<>>
    /\ cancel = FALSE
    /\ cancel_hist = NoCancel
    /\ s_contexts = <<>>
    /\ s_query_call = NoQueryCall
    /\ s_entry_config = NoConfig
    /\ cb_statuses = <<>>
    /\ s_client \in ClientVariants
    /\ llm_failed = FALSE

ServiceNext ==
    \/ ConfigSet
    \/ AskEnter
    \/ AskRetrieve
    \/ AskRetrieveRaises
    \/ AskGenerate
    \/ Enter
    \/ Retrieve
    \/ RetrieveRaises
    \/ EmitStatus
    \/ EmitQuerying
    \/ LlmYield
    \/ LlmEnd
    \/ LlmRaises
    \/ LlmSwallows
    \/ LoopBody
    \/ Flush
    \/ FinalYield
    \/ OnCancel

\* ------------------------------------------------------------------------
\* LLMClient.embed
\* ------------------------------------------------------------------------

\* Elements a JSON embedding array can hold: numbers, the literals NaN and
\* Infinity (json.loads accepts both), and a non-number.
JsonElements ==
    { [kind |-> "num", v |-> 0], [kind |-> "num", v |-> 1],
      [kind |-> "nan", v |-> 0], [kind |-> "inf", v |-> 0],
      [kind |-> "str", v |-> 0] }

\* isinstance(val, (int, float)); NaN and the infinities are floats.
IsNumber(e) == e.kind \in {"num", "nan", "inf"}

\* not (math.isnan(val) or math.isinf(val))
IsFinite(e) == e.kind = "num"

\* What the exchange delivers: it fails, or the response has no embedding
\* field ("null"), or the field is a list.
EmbedResponses ==
    { [kind |-> "failed", embedding |-> <<>>], [kind |-> "null", embedding |-> <<>>] }
        \cup {[kind |-> "list", embedding |-> l] : l \in SeqsUpTo(JsonElements, MaxDim)}

\* OllamaClient.embed: [] unless the field is a non-empty list of finite
\* numbers; `except Exception` gives [] too.
OllamaEmbed(r) ==
    IF r.kind # "list" \/ r.embedding = <<>> THEN <<>>
    ELSE IF \E i \in 1..Len(r.embedding) :
               ~IsNumber(r.embedding[i]) \/ ~IsFinite(r.embedding[i])
         THEN <<>>
         ELSE r.embedding

\* OpenAICompatibleClient.embed: list(response["data"][0]["embedding"]), or
\* [] when anything raised; the elements are not looked at.
OpenAIEmbed(r) == IF r.kind # "list" THEN <<>> ELSE r.embedding

\* self._client.embed(chunk) for the client variant in use.
client_embed(variant, r) == IF variant = "openai" THEN OpenAIEmbed(r) ELSE OllamaEmbed(r)

NoBlob == [kind |-> "none", bytes |-> <<>>]

\* struct.pack("<f", x) of one element: a non-number raises struct.error,
\* NaN and the infinities have float32 encodings.
PackElement(e) ==
    CASE e.kind = "num" -> Float32LE(e.v)
      [] e.kind = "nan" -> <<0, 0, 192, 127>>
      [] e.kind = "inf" -> <<0, 0, 128, 127>>
      [] OTHER -> <<>>

EmbedInit ==
    /\ e_pc = "call"
    /\ e_client \in ClientVariants
    /\ e_response \in EmbedResponses
    /\ e_ret = <<>>
    /\ e_blob = NoBlob

EmbedIdle ==
    /\ e_pc = "idle"
    /\ e_client = "ollama"
    /\ e_response = [kind |-> "failed", embedding |-> <<>>]
    /\ e_ret = <<>>
    /\ e_blob = NoBlob

\* vector = self._client.embed(chunk)
EmbedCall ==
    /\ e_pc = "call"
    /\ e_ret' = client_embed(e_client, e_response)
    /\ e_pc' = "embedded"
    /\ UNCHANGED <<e_client, e_response, e_blob>>
    /\ UNCHANGED outsideEmbed

\* index_note, rest of the loop body (index.py:108-113): an empty vector is
\* skipped, otherwise blob = struct.pack(...) and the pair is kept for
\* replace_note_embeddings.
StoreVector ==
    /\ e_pc = "embedded"
    /\ IF e_ret = <<>>
       THEN e_pc' = "skipped" /\ UNCHANGED e_blob
       ELSE IF \E i \in 1..Len(e_ret) : ~IsNumber(e_ret[i])
            THEN e_pc' = "raised" /\ UNCHANGED e_blob
            ELSE /\ e_pc' = "stored"
                 /\ e_blob' = [kind |-> "blob",
                               bytes |-> Flatten([i \in 1..Len(e_ret) |-> PackElement(e_ret[i])])]
    /\ UNCHANGED <<e_client, e_response, e_ret>>
    /\ UNCHANGED outsideEmbed

EmbedNext ==
    \/ EmbedCall
    \/ StoreVector

\* ------------------------------------------------------------------------
\* RagIndex._chunk_text
\* ------------------------------------------------------------------------

\* Characters of the texts handed to the chunker.
ChunkAlphabet == {"a", "#", " ", NL}

\* Values of max_chars.
MaxCharsPool == {1, 3, 5}

ChunkInit ==
    /\ c_pc = "call"
    /\ c_text \in SeqsUpTo(ChunkAlphabet, MaxText)
    /\ c_max \in MaxCharsPool
    /\ c_chunks = <<>>

ChunkIdle ==
    /\ c_pc = "idle"
    /\ c_text = <<>>
    /\ c_max = 1
    /\ c_chunks = <<>>

\* chunks = RagIndex._chunk_text(text, max_chars)
ChunkCall ==
    /\ c_pc = "call"
    /\ c_chunks' = chunk_text(c_text, c_max)
    /\ c_pc' = "returned"
    /\ UNCHANGED <<c_text, c_max>>
    /\ UNCHANGED outsideChunk

ChunkNext == ChunkCall

\* ------------------------------------------------------------------------
\* The lexical index notes_fts (schema.py FTS_SQL, Repository._init_fts)
\* ------------------------------------------------------------------------

\* Titles and contents of the notes written here.
FtsTexts == {"a", "b"}

FtsNotePool == [title : FtsTexts, content : FtsTexts]

\* One entry of the external-content index: what was indexed for a rowid.
FtsEntry(id, n) == [rowid |-> id, title |-> n.title, content |-> n.content]

\* Trigger notes_fts_insert, AFTER INSERT ON notes.
notes_fts_insert(index, id, new) == index \cup {FtsEntry(id, new)}

\* The update trigger without its 'delete' statement.
notes_fts_update_KeepsOld(index, id, old, new) == index \cup {FtsEntry(id, new)}

\* Trigger notes_fts_update, AFTER UPDATE OF title, content ON notes: the
\* 'delete' command with the old values, then the insert of the new ones.
notes_fts_update(index, id, old, new) ==
    (index \ {FtsEntry(id, old)}) \cup {FtsEntry(id, new)}

\* Trigger notes_fts_delete, AFTER DELETE ON notes.
notes_fts_delete(index, id, old) == index \ {FtsEntry(id, old)}

\* INSERT INTO notes_fts(notes_fts) VALUES('rebuild'): the index is rebuilt
\* from the content table.
fts_rebuild(table) == {FtsEntry(id, table[id]) : id \in DOMAIN table}

\* Tables notes a database written before the index existed can hold.
LegacyTables(n) ==
    UNION {[ids -> FtsNotePool] : ids \in SUBSET (1..(n - 1))}

\* A database file no Repository has open: written by a version without
\* the index, or new.
FtsInit ==
    /\ db_open = FALSE
    /\ db_next_id \in 1..(MaxNotes + 1)
    /\ db_notes \in LegacyTables(db_next_id)
    /\ fts_created = FALSE
    /\ notes_fts = {}
    /\ db_last = "none"

FtsIdle ==
    /\ db_open = FALSE
    /\ db_next_id = 1
    /\ db_notes = <<>>
    /\ fts_created = FALSE
    /\ notes_fts = {}
    /\ db_last = "none"

\* Repository.__init__ -> _init_schema -> _init_fts: the probe SELECT fails
\* when notes_fts is missing; FTS_SQL creates table and triggers; a newly
\* created index is rebuilt.
OpenStore ==
    /\ ~db_open
    /\ db_open' = TRUE
    /\ fts_created' = TRUE
    /\ notes_fts' = IF fts_created THEN notes_fts ELSE fts_rebuild(db_notes)
    /\ db_last' = "open"
    /\ UNCHANGED <<db_notes, db_next_id>>
    /\ UNCHANGED outsideFts

\* Repository.close()
CloseStore ==
    /\ db_open
    /\ db_open' = FALSE
    /\ db_last' = "close"
    /\ UNCHANGED <<db_notes, db_next_id, fts_created, notes_fts>>
    /\ UNCHANGED outsideFts

\* Repository.create_note(title, content): the INSERT and its trigger.
FtsCreateNote ==
    /\ db_open
    /\ db_next_id <= MaxNotes
    /\ \E n \in FtsNotePool :
          /\ db_notes' = (db_next_id :> n) @@ db_notes
          /\ notes_fts' = notes_fts_insert(notes_fts, db_next_id, n)
    /\ db_next_id' = db_next_id + 1
    /\ db_last' = "create_note"
    /\ UNCHANGED <<db_open, fts_created>>
    /\ UNCHANGED outsideFts

\* Repository.update_note(note_id, title, content): the UPDATE touches the row
\* with that id, if there is one, and the trigger runs for it.
update_note ==
    /\ db_open
    /\ \E id \in NoteIds, n \in FtsNotePool :
          IF id \in DOMAIN db_notes
          THEN /\ db_notes' = [db_notes EXCEPT ![id] = n]
               /\ notes_fts' = notes_fts_update(notes_fts, id, db_notes[id], n)
          ELSE UNCHANGED <<db_notes, notes_fts>>
    /\ db_last' = "update_note"
    /\ UNCHANGED <<db_open, db_next_id, fts_created>>
    /\ UNCHANGED outsideFts

\* Repository.delete_note(note_id): the DELETE and its trigger.
FtsDeleteNote ==
    /\ db_open
    /\ \E id \in NoteIds :
          IF id \in DOMAIN db_notes
          THEN /\ db_notes' = [i \in DOMAIN db_notes \ {id} |-> db_notes[i]]
               /\ notes_fts' = notes_fts_delete(notes_fts, id, db_notes[id])
          ELSE UNCHANGED <<db_notes, notes_fts>>
    /\ db_last' = "delete_note"
    /\ UNCHANGED <<db_open, db_next_id, fts_created>>
    /\ UNCHANGED outsideFts

FtsNext ==
    \/ OpenStore
    \/ CloseStore
    \/ FtsCreateNote
    \/ update_note
    \/ FtsDeleteNote

\* ------------------------------------------------------------------------
\* Repository.search_notes_by_bm25 and Repository._sanitize_fts_query
\* ------------------------------------------------------------------------

MaxQuery == 3

QUOTE == "\""

\* The character class without the asterisk.
FtsMeta_NoStar == {QUOTE, "^", "(", ")", "[", "]"}

\* The character class of re.sub(r'["\^*()\[\]]', " ", query).
FtsMeta == {QUOTE, "^", "*", "(", ")", "[", "]"}

\* Characters of the raw queries.
QueryAlphabet == {"a", " ", NL, QUOTE, "^", "*", "(", ")", "[", "]"}

\* cleaned = re.sub(<class>, " ", query)
CleanMeta(query) ==
    [i \in 1..Len(query) |-> IF query[i] \in FtsMeta THEN " " ELSE query[i]]

\* str.split(): the maximal runs of non-whitespace characters.
RECURSIVE SplitWhitespace(_, _)
SplitWhitespace(text, current) ==
    LET done == IF current = <<>> THEN <<>> ELSE <<current>>
    IN IF text = <<>> THEN done
       ELSE IF IsSpace(Head(text)) THEN done \o SplitWhitespace(Tail(text), <<>>)
            ELSE SplitWhitespace(Tail(text), Append(current, Head(text)))

\* " ".join(f'"{w}"' for w in words)
RECURSIVE JoinQuoted(_)
JoinQuoted(words) ==
    IF words = <<>> THEN <<>>
    ELSE LET quoted == <<QUOTE>> \o Head(words) \o <<QUOTE>>
         IN IF Len(words) = 1 THEN quoted
            ELSE quoted \o <<" ">> \o JoinQuoted(Tail(words))

\* Repository._sanitize_fts_query(query)
sanitize_fts_query(query) ==
    LET words == SplitWhitespace(CleanMeta(query), <<>>)
    IN IF words = <<>> THEN <<>> ELSE JoinQuoted(words)

\* What the engine does with a MATCH: rows, no rows, or
\* sqlite3.OperationalError.
EngineOutcomes == {"rows", "no_rows", "error"}

Bm25Init ==
    /\ b_pc = "called"
    /\ b_query \in SeqsUpTo(QueryAlphabet, MaxQuery)
    /\ b_safe = <<>>
    /\ b_engine = <<>>
    /\ b_ret = "none"

Bm25Idle ==
    /\ b_pc = "called"
    /\ b_query = <<>>
    /\ b_safe = <<>>
    /\ b_engine = <<>>
    /\ b_ret = "none"

\* if not query.strip(): return []; safe_query = ...; if not safe_query:
\* return []
Bm25Sanitize ==
    /\ b_pc = "called"
    /\ IF Strip(b_query) = <<>>
       THEN /\ b_pc' = "returned"
            /\ b_ret' = "empty"
            /\ UNCHANGED b_safe
       ELSE /\ b_safe' = sanitize_fts_query(b_query)
            /\ IF b_safe' = <<>>
               THEN b_pc' = "returned" /\ b_ret' = "empty"
               ELSE b_pc' = "match" /\ UNCHANGED b_ret
    /\ UNCHANGED <<b_query, b_engine>>
    /\ UNCHANGED outsideBm25

\* self._conn.execute(... WHERE notes_fts MATCH ? ..., (safe_query, top_k));
\* OperationalError is caught and gives [].
Bm25Match ==
    /\ b_pc = "match"
    /\ b_engine' = Append(b_engine, b_safe)
    /\ \E outcome \in EngineOutcomes :
          b_ret' = IF outcome = "rows" THEN "rows" ELSE "empty"
    /\ b_pc' = "returned"
    /\ UNCHANGED <<b_query, b_safe>>
    /\ UNCHANGED outsideBm25

Bm25Next ==
    \/ Bm25Sanitize
    \/ Bm25Match

\* ------------------------------------------------------------------------
\* build_graph (langgraph_rag.py): retrieve -> (select_chunks) -> generate
\* ------------------------------------------------------------------------

\* Lists index.query can hand to the retrieve node.
GraphContexts == SeqsUpTo({Doc(1), Doc(2)}, MaxChunks)

\* The elements of ctxs at the positions in keep, in their order.
RECURSIVE KeptAt(_, _, _)
KeptAt(ctxs, keep, i) ==
    IF i > Len(ctxs) THEN <<>>
    ELSE (IF i \in keep THEN <<ctxs[i]>> ELSE <<>>) \o KeptAt(ctxs, keep, i + 1)

\* What chunk_selector.select(contexts, question) can return: the chunks it
\* judged relevant, in the order of the list.
SelectorResults(ctxs) == {KeptAt(ctxs, keep, 1) : keep \in SUBSET (1..Len(ctxs))}

Absent == "absent"

\* The key is absent, None, or an empty list: Python's `x or y` takes y.
Falsy(value) == value = Absent \/ value = <<>>

\* contexts = state.get("selected_contexts") or state.get("contexts", [])
generate_contexts(state) ==
    IF Falsy(state.selected_contexts) THEN state.contexts
    ELSE state.selected_contexts

GraphInit ==
    /\ g_pc = "retrieve"
    /\ g_selector \in BOOLEAN
    /\ g_state = [contexts |-> <<>>, selected_contexts |-> Absent]
    /\ g_prompt = Absent
    /\ g_answer = "none"

GraphIdle ==
    /\ g_pc = "idle"
    /\ g_selector = FALSE
    /\ g_state = [contexts |-> <<>>, selected_contexts |-> Absent]
    /\ g_prompt = Absent
    /\ g_answer = "none"

\* Node retrieve: contexts = index.query(state["question"]); the edge leads to
\* select_chunks when the graph was built with a selector.
GraphRetrieve ==
    /\ g_pc = "retrieve"
    /\ \E ctxs \in GraphContexts : g_state' = [g_state EXCEPT !.contexts = ctxs]
    /\ g_pc' = IF g_selector THEN "select_chunks" ELSE "generate"
    /\ UNCHANGED <<g_selector, g_prompt, g_answer>>
    /\ UNCHANGED outsideGraph

\* Node select_chunks: selected = chunk_selector.select(contexts, question).
GraphSelectChunks ==
    /\ g_pc = "select_chunks"
    /\ \E selected \in SelectorResults(g_state.contexts) :
          g_state' = [g_state EXCEPT !.selected_contexts = selected]
    /\ g_pc' = "generate"
    /\ UNCHANGED <<g_selector, g_prompt, g_answer>>
    /\ UNCHANGED outsideGraph

\* Node generate: format_contexts(contexts), build_prompt, client.generate;
\* an exception of the client leaves the graph.
GraphGenerate ==
    /\ g_pc = "generate"
    /\ g_prompt' = generate_contexts(g_state)
    /\ \E outcome \in {"answer", "raised"} :
          /\ g_answer' = outcome
          /\ g_pc' = IF outcome = "raised" THEN "raised" ELSE "end"
    /\ UNCHANGED <<g_selector, g_state>>
    /\ UNCHANGED outsideGraph

GraphNext ==
    \/ GraphRetrieve
    \/ GraphSelectChunks
    \/ GraphGenerate

\* ------------------------------------------------------------------------
\* Store handles of the desktop window (NotesWindow, RagService.close,
\* RagService.clone_for_thread)
\* ------------------------------------------------------------------------

MaxClones == 2

MaxSaves == 2

MaxOps == 3

\* NotesWindow._repo, the handle NotesApp opened for the window.
SharedHandle == 0

Handles == 0..MaxClones

\* RagService(repo, config): the service keeps the handle it was given.
RagService(repo) == [repo |-> repo]

\* RagService.close(): self._repo.close()
service_close(open, service) == [open EXCEPT ![service.repo] = FALSE]

\* A store operation on a handle, recorded with the handle's state.
IssueOp(ops, open, handle) == Append(ops, [handle |-> handle, open |-> open[handle]])

\* NotesApp.do_activate: Repository(db_path), RagService(self._repo,
\* self._config), NotesWindow(self, self._repo, self._config, service).
HandleInit ==
    /\ h_open = [h \in Handles |-> h = SharedHandle]
    /\ h_next = 1
    /\ win_service = RagService(SharedHandle)
    /\ h_clones = <<>>
    /\ h_saves = 0
    /\ h_ops = <<>>

HandleIdle ==
    /\ h_open = [h \in Handles |-> FALSE]
    /\ h_next = 0
    /\ win_service = RagService(SharedHandle)
    /\ h_clones = <<>>
    /\ h_saves = 0
    /\ h_ops = <<>>

\* The window reads or writes notes through self._repo.
WindowStoreOp ==
    /\ Len(h_ops) < MaxOps
    /\ h_ops' = IssueOp(h_ops, h_open, SharedHandle)
    /\ UNCHANGED <<h_open, h_next, win_service, h_clones, h_saves>>
    /\ UNCHANGED outsideHandle

\* The ask dialog queries through self._rag_service (index.query on the
\* service's handle).
ServiceStoreOp ==
    /\ Len(h_ops) < MaxOps
    /\ h_ops' = IssueOp(h_ops, h_open, win_service.repo)
    /\ UNCHANGED <<h_open, h_next, win_service, h_clones, h_saves>>
    /\ UNCHANGED outsideHandle

\* NotesWindow._on_config_saved: self._rag_service.close(); self._rag_service
\* = RagService(self._repo, self._config).
OnConfigSaved ==
    /\ h_saves < MaxSaves
    /\ h_saves' = h_saves + 1
    /\ h_open' = service_close(h_open, win_service)
    /\ win_service' = RagService(SharedHandle)
    /\ UNCHANGED <<h_next, h_clones, h_ops>>
    /\ UNCHANGED outsideHandle

\* _reindex_worker: rag = self._rag_service.clone_for_thread(), which opens
\* Repository(self._db_path), a fresh handle on the same file.
CloneForThread ==
    /\ h_next <= MaxClones
    /\ h_open' = [h_open EXCEPT ![h_next] = TRUE]
    /\ h_clones' = Append(h_clones, [service |-> RagService(h_next), phase |-> "build"])
    /\ h_next' = h_next + 1
    /\ UNCHANGED <<win_service, h_saves, h_ops>>
    /\ UNCHANGED outsideHandle

\* rag.build_index(): store operations on the clone's handle.
CloneStoreOp ==
    /\ Len(h_ops) < MaxOps
    /\ \E w \in DOMAIN h_clones :
          /\ h_clones[w].phase = "build"
          /\ h_ops' = IssueOp(h_ops, h_open, h_clones[w].service.repo)
    /\ UNCHANGED <<h_open, h_next, win_service, h_clones, h_saves>>
    /\ UNCHANGED outsideHandle

\* finally: rag.close()
CloneClose ==
    /\ \E w \in DOMAIN h_clones :
          /\ h_clones[w].phase = "build"
          /\ h_open' = service_close(h_open, h_clones[w].service)
          /\ h_clones' = [h_clones EXCEPT ![w].phase = "closed"]
    /\ UNCHANGED <<h_next, win_service, h_saves, h_ops>>
    /\ UNCHANGED outsideHandle

HandleNext ==
    \/ WindowStoreOp
    \/ ServiceStoreOp
    \/ OnConfigSaved
    \/ CloneForThread
    \/ CloneStoreOp
    \/ CloneClose

\* ------------------------------------------------------------------------
\* Specifications
\* ------------------------------------------------------------------------
StreamIdle ==
    /\ s_pc = "idle"
    /\ llm = <<>>
    /\ pos = 0
    /\ chunk = EmptyStr
    /\ pending = EmptyStr
    /\ in_think = FALSE
    /\ status_updates = <<>>
    /\ status_idx = 0
    /\ sources = <<>>
    /\ events = <<>>
    /\ cancel = FALSE
    /\ cancel_hist = NoCancel
    /\ s_contexts = <<>>
    /\ s_query_call = NoQueryCall
    /\ s_entry_config = NoConfig
    /\ cb_statuses = <<>>
    /\ s_client = "ollama"
    /\ llm_failed = FALSE

\* Each specification runs one part of the program and holds the others in
\* their initial state.
InitStore ==
    StoreInit /\ StreamIdle /\ ReindexInit /\ SelectIdle /\ QueryIdle /\ ExpandIdle /\ FusionIdle
        /\ ConfigIdle /\ AskIdle /\ EmbedIdle /\ ChunkIdle /\ FtsIdle /\ Bm25Idle /\ GraphIdle /\ HandleIdle

SpecStore == InitStore /\ [][StoreNext]_vars

InitStream ==
    StreamInit /\ StoreInit /\ ReindexInit /\ SelectIdle /\ QueryIdle /\ ExpandIdle /\ FusionIdle
        /\ ConfigInitPlain /\ AskIdle /\ EmbedIdle /\ ChunkIdle /\ FtsIdle /\ Bm25Idle /\ GraphIdle /\ HandleIdle

SpecStream == InitStream /\ [][StreamNext]_vars

InitReindex ==
    ReindexInit /\ StoreInit /\ StreamIdle /\ SelectIdle /\ QueryIdle /\ ExpandIdle /\ FusionIdle
        /\ ConfigIdle /\ AskIdle /\ EmbedIdle /\ ChunkIdle /\ FtsIdle /\ Bm25Idle /\ GraphIdle /\ HandleIdle

SpecReindex == InitReindex /\ [][ReindexNext]_vars

\* The threads that were started get to run and the GTK main loop runs the
\* callbacks queued with idle_add; requests may stop coming.
ReindexFairness ==
    /\ WF_vars(ApiThreadStart)
    /\ WF_vars(ApiWorkerSetup)
    /\ WF_vars(DeskWorkerClone)
    /\ WF_vars(DeskWorkerBuild)
    /\ WF_vars(DeskWorkerClose)
    /\ WF_vars(DeskOnReindexDone)

SpecReindexLive == InitReindex /\ [][ReindexNext]_vars /\ ReindexFairness

InitSelect ==
    SelectInit /\ StoreInit /\ StreamIdle /\ ReindexInit /\ QueryIdle /\ ExpandIdle /\ FusionIdle
        /\ ConfigIdle /\ AskIdle /\ EmbedIdle /\ ChunkIdle /\ FtsIdle /\ Bm25Idle /\ GraphIdle /\ HandleIdle

SpecSelect == InitSelect /\ [][SelectNext]_vars

InitQuery ==
    QueryInit /\ StreamIdle /\ ReindexInit /\ SelectIdle /\ ExpandIdle /\ FusionIdle
        /\ ConfigIdle /\ AskIdle /\ EmbedIdle /\ ChunkIdle /\ FtsIdle /\ Bm25Idle /\ GraphIdle /\ HandleIdle

SpecQuery == InitQuery /\ [][QueryNext]_vars

InitExpand ==
    ExpandInit /\ StoreInit /\ StreamIdle /\ ReindexInit /\ SelectIdle /\ QueryIdle /\ FusionIdle
        /\ ConfigIdle /\ AskIdle /\ EmbedIdle /\ ChunkIdle /\ FtsIdle /\ Bm25Idle /\ GraphIdle /\ HandleIdle

SpecExpand == InitExpand /\ [][ExpandNext]_vars

InitFusion ==
    FusionInit /\ StoreInit /\ StreamIdle /\ ReindexInit /\ SelectIdle /\ QueryIdle /\ ExpandIdle
        /\ ConfigIdle /\ AskIdle /\ EmbedIdle /\ ChunkIdle /\ FtsIdle /\ Bm25Idle /\ GraphIdle /\ HandleIdle

SpecFusion == InitFusion /\ [][FusionNext]_vars

ServiceInit ==
    \/ ServiceStreamInit /\ AskIdle
    \/ AskInit /\ StreamIdle

InitService ==
    ServiceInit /\ ConfigInit /\ StoreInit /\ ReindexInit /\ SelectIdle /\ QueryIdle /\ ExpandIdle
        /\ FusionIdle /\ EmbedIdle /\ ChunkIdle /\ FtsIdle /\ Bm25Idle /\ GraphIdle /\ HandleIdle

SpecService == InitService /\ [][ServiceNext]_vars

InitEmbed ==
    EmbedInit /\ StoreInit /\ StreamIdle /\ ReindexInit /\ SelectIdle /\ QueryIdle /\ ExpandIdle
        /\ FusionIdle /\ ConfigIdle /\ AskIdle /\ ChunkIdle /\ FtsIdle /\ Bm25Idle /\ GraphIdle /\ HandleIdle

SpecEmbed == InitEmbed /\ [][EmbedNext]_vars

InitChunk ==
    ChunkInit /\ StoreInit /\ StreamIdle /\ ReindexInit /\ SelectIdle /\ QueryIdle /\ ExpandIdle
        /\ FusionIdle /\ ConfigIdle /\ AskIdle /\ EmbedIdle /\ FtsIdle /\ Bm25Idle /\ GraphIdle /\ HandleIdle

SpecChunk == InitChunk /\ [][ChunkNext]_vars

InitFts ==
    FtsInit /\ StoreInit /\ StreamIdle /\ ReindexInit /\ SelectIdle /\ QueryIdle /\ ExpandIdle
        /\ FusionIdle /\ ConfigIdle /\ AskIdle /\ EmbedIdle /\ ChunkIdle /\ Bm25Idle /\ GraphIdle /\ HandleIdle

SpecFts == InitFts /\ [][FtsNext]_vars

InitBm25 ==
    Bm25Init /\ StoreInit /\ StreamIdle /\ ReindexInit /\ SelectIdle /\ QueryIdle /\ ExpandIdle
        /\ FusionIdle /\ ConfigIdle /\ AskIdle /\ EmbedIdle /\ ChunkIdle /\ FtsIdle
        /\ GraphIdle /\ HandleIdle

SpecBm25 == InitBm25 /\ [][Bm25Next]_vars

InitGraph ==
    GraphInit /\ StoreInit /\ StreamIdle /\ ReindexInit /\ SelectIdle /\ QueryIdle /\ ExpandIdle
        /\ FusionIdle /\ ConfigIdle /\ AskIdle /\ EmbedIdle /\ ChunkIdle /\ FtsIdle /\ Bm25Idle /\ HandleIdle

SpecGraph == InitGraph /\ [][GraphNext]_vars

InitHandle ==
    HandleInit /\ StoreInit /\ StreamIdle /\ ReindexInit /\ SelectIdle /\ QueryIdle /\ ExpandIdle
        /\ FusionIdle /\ ConfigIdle /\ AskIdle /\ EmbedIdle /\ ChunkIdle /\ FtsIdle /\ Bm25Idle
        /\ GraphIdle

SpecHandle == InitHandle /\ [][HandleNext]_vars

\* ------------------------------------------------------------------------
\* Properties of ask_stream
\* ------------------------------------------------------------------------

\* Concatenation of the answer_delta fields in emission order.
AnswerText(evs) == Flatten([i \in 1..Len(evs) |-> evs[i].answer_delta])

DoneCount(evs) == Cardinality({i \in 1..Len(evs) : evs[i].done})

RunEndedNormally == s_pc = "done" /\ ~Last(events).cancelled

\* C1: in a run that ends without raising and without cancellation, the
\* answer deltas concatenated in emission order equal the concatenation of
\* the deltas the LLM yielded.
C1_AnswerEqualsCompletion ==
    RunEndedNormally => AnswerText(events) = Flatten(llm)

\* C2 as stated: once the predicate became true after n answer deltas, the
\* caller sees exactly those n answer deltas and then exactly one terminal
\* event with done and cancelled set.
C2_AlwaysCancelledTerminal ==
    (s_pc = "done" /\ cancel) =>
        /\ AnswerCount(events) = cancel_hist.answers
        /\ DoneCount(events) = 1
        /\ Last(events).done
        /\ Last(events).cancelled

\* A delta reached (or was about to reach) the loop body after the predicate
\* became true, so the predicate was polled while true.
PolledAfterCancel ==
    cancel /\ (cancel_hist.at_pc = "poll" \/ cancel_hist.recv < pos)

\* C2 (amended): the predicate is polled only when a delta arrives.  After
\* the predicate became true no further answer or thinking delta is emitted;
\* if a delta arrives after that, the run ends with exactly one terminal
\* event carrying done and cancelled, with exactly the n answer deltas before
\* it; if the LLM stream ends first, the terminal event is the ordinary one.
C2_CancelAtNextDelta ==
    /\ cancel =>
          \A i \in 1..Len(events) :
             i > cancel_hist.emitted =>
                /\ events[i].answer_delta = EmptyStr
                /\ events[i].thinking_delta = EmptyStr
    /\ (s_pc = "done" /\ cancel) =>
          /\ AnswerCount(events) = cancel_hist.answers
          /\ DoneCount(events) = 1
          /\ Last(events).done
          /\ Last(events).cancelled <=> PolledAfterCancel
          /\ (~PolledAfterCancel) => pos = Len(llm)

\* Scenario S6: the predicate flips after two answer deltas, a third delta
\* arrives and the run ends with the cancelled terminal event.
C2_Witness ==
    /\ s_pc = "done"
    /\ cancel
    /\ cancel_hist.answers = 2
    /\ Last(events).cancelled
    /\ pos = 3

\* C3: a run that does not raise emits exactly one done event, it is the
\* last event, it carries the sources list, and every earlier event has
\* done = FALSE.
C3_ExactlyOneDoneLast ==
    /\ s_pc \notin {"done"} => DoneCount(events) = 0
    /\ s_pc = "done" =>
          /\ Len(events) >= 1
          /\ Last(events).done
          /\ Last(events).sources = sources
          /\ \A i \in 1..(Len(events) - 1) : ~events[i].done
          /\ DoneCount(events) = 1

C3_Witness ==
    /\ s_pc = "done"
    /\ Len(events) >= 5
    /\ Len(sources) = 2
    /\ ~Last(events).cancelled

\* The statuses of the status events, in the order of delivery.
RECURSIVE StatusesOf(_)
StatusesOf(evs) ==
    IF evs = <<>> THEN <<>>
    ELSE (IF Head(evs).status # "" THEN <<Head(evs).status>> ELSE <<>>)
            \o StatusesOf(Tail(evs))

IsPrefix(a, b) == Len(a) <= Len(b) /\ SubSeq(b, 1, Len(a)) = a

\* Place of a status in the order expanding, searching, selecting,
\* generating; ask_stream has no label for selecting.
StatusRank(message) ==
    CASE message = "Expanding the question" -> 1
      [] message = "Searching notes" -> 2
      [] message = "Querying Ollama" -> 4
      [] OTHER -> 0

InStatusOrder(statuses) ==
    /\ \A i \in 1..Len(statuses) : StatusRank(statuses[i]) # 0
    /\ \A i, j \in 1..Len(statuses) :
          i < j => StatusRank(statuses[i]) < StatusRank(statuses[j])

\* No status event after an answer delta.
StatusBeforeAnswer ==
    \A i, j \in 1..Len(events) :
       (i < j /\ events[i].answer_delta # EmptyStr) => events[j].status = ""

\* The run is over because index.query raised.
RetrievalRaised == s_pc = "raised" /\ status_idx = 0 /\ events = <<>>

IndicesOf(rows) == {r.chunk_index : r \in rows}

\* C5: a SELECT on another handle issued while replace_note_embeddings runs
\* returns either the note's complete old chunk set or its complete new
\* chunk set, never an empty or mixed one.
C5_ReaderSeesOldOrNew ==
    observed # NoObservation => observed.rows \in {observed.old, observed.new}

\* The reader looked while the INSERTs were under way, the note had chunks
\* before and the new set differs from them.
C5_Witness ==
    /\ observed # NoObservation
    /\ ix_pc = "insert"
    /\ ix_ins >= 1
    /\ observed.old # {}
    /\ observed.new # observed.old
    /\ observed.rows = observed.old

IndexNoteReturns == ix_op' = "index_note" /\ ix_pc # "returned" /\ ix_pc' = "returned"

\* C6: when index_note returns True the note has at least one stored chunk
\* and its chunk indices are exactly 0..n-1; when it returns False the
\* stored chunks of every note are what they were when the call began.
C6_IndexNoteResult ==
    [][IndexNoteReturns =>
          LET rows == RowsOf(embeddings', ix_note'.id) IN
          /\ ix_ret'.ok =>
                /\ rows # {}
                /\ IndicesOf(rows) = 0..(Cardinality(rows) - 1)
          /\ ~ix_ret'.ok => embeddings' = before']_vars

\* index_note returned True for a two-chunk note that had one chunk before.
C6_Witness ==
    /\ ix_op = "index_note"
    /\ ix_pc = "returned"
    /\ ix_ret.ok
    /\ Cardinality(replace_old) = 1
    /\ Cardinality(RowsOf(embeddings, ix_note.id)) = 2

Processed == {ix_list[i].id : i \in 1..ix_idx}

ExpectedProgress ==
    [i \in 1..Len(ix_list) |->
        [current |-> i, total |-> Len(ix_list), note |-> ix_list[i].id]]

\* C9: build_index erases every stored chunk before it processes the first
\* note, takes each listed note exactly once in list order, calls the
\* progress callback (when given) with (current, total, note) for current =
\* 1..total in increasing order, and returns total.
C9_BuildIndex ==
    ix_op = "build_index" =>
        /\ ix_pc # "clear" => \A r \in embeddings : r.note_id \in Processed
        /\ progress_cb /\ ix_pc \in {"next", "returned"} =>
              progress = SubSeq(ExpectedProgress, 1, ix_idx)
        /\ ix_pc = "returned" =>
              /\ ix_idx = Len(ix_list)
              /\ ix_ret.total = Len(ix_list)
              /\ progress = IF progress_cb THEN ExpectedProgress ELSE <<>>

\* A rebuild over two notes returned 2 after two callbacks, with only the
\* second note's chunks stored.
C9_Witness ==
    /\ ix_op = "build_index"
    /\ ix_pc = "returned"
    /\ ix_ret.total = 2
    /\ Len(progress) = 2
    /\ embeddings # {}
    /\ \A r \in embeddings : r.note_id = ix_list[2].id

\* ------------------------------------------------------------------------
\* Properties of the background reindex
\* ------------------------------------------------------------------------

\* Workers that have been started and have not yet handed the rebuild back
\* (the worker thread is created, or is setting up, or is rebuilding).
ApiRunningWorkers == Cardinality(WorkersAt(api_workers, {"setup"})) + api_spawn

DeskRunningWorkers == Cardinality(WorkersAt(desk_workers, {"clone", "build"}))

AtMostOneWorker ==
    /\ ApiRunningWorkers <= 1
    /\ DeskRunningWorkers <= 1
    /\ ApiRunningWorkers = 1 => api_running
    /\ DeskRunningWorkers = 1 => desk_running

RequestWhileRunningIsNoOp ==
    /\ (api_requests' # api_requests /\ api_running) =>
          UNCHANGED <<api_running, api_current, api_total, api_error, api_spawn,
                      api_workers>>
    /\ (desk_requests' # desk_requests /\ desk_running) =>
          UNCHANGED <<desk_running, desk_workers, desk_idle>>

SaysYes(r) ==
    \E i \in 1..Len(r), j \in 1..Len(r) :
        /\ i + 2 <= j
        /\ \A k \in 1..(i - 1) : IsSpace(r[k])
        /\ \A k \in i..j : ~IsSpace(r[k])
        /\ j = Len(r) \/ IsSpace(r[j + 1])
        /\ \E a \in i..(j - 2) :
              /\ \A k \in i..(a - 1) : r[k] \in Punctuation
              /\ r[a] \in {"y", "Y"}
              /\ r[a + 1] \in {"e", "E"}
              /\ r[a + 2] \in {"s", "S"}
              /\ \A k \in (a + 3)..j : r[k] \in Punctuation

Kept(i) == sel_llm[i].raised \/ SaysYes(sel_llm[i].text)

KeptPositions ==
    SelectSeq([i \in 1..Len(sel_chunks) |-> i], LAMBDA i : Kept(i))

\* C10: select returns, in input order, exactly the chunks whose LLM call
\* raised or whose response's first token, stripped of .,!?;: and
\* uppercased, is YES; every other chunk is dropped.
C10_SelectKeepsYesOrRaised ==
    sel_pc = "returned" =>
        sel_ret = [k \in 1..Len(KeptPositions) |-> sel_chunks[KeptPositions[k]]]

\* Three chunks: the first answered " Yes\n" and is kept, the second
\* answered "yesterday" and is dropped, the call for the third raised and it
\* is kept.
C10_Witness ==
    /\ sel_pc = "returned"
    /\ Len(sel_chunks) = 3
    /\ sel_llm[1] = [raised |-> FALSE, text |-> <<" ", "Y", "e", "s", NL>>]
    /\ sel_llm[2] = [raised |-> FALSE, text |-> <<"y", "e", "s", "t", "e", "r", "d", "a", "y">>]
    /\ sel_llm[3].raised
    /\ sel_ret = <<sel_chunks[1], sel_chunks[3]>>

\* C11: whenever the HTTP exchange of a relevance check fails, the chunk under
\* evaluation is kept in the selection, whichever client variant the selector
\* was constructed with.
C11_TransportFailureKeepsChunk ==
    [][(sel_i' = sel_i + 1 /\ sel_transport'[sel_i'])
          => relevant' = Append(relevant, sel_chunks[sel_i'])]_vars

\* ------------------------------------------------------------------------
\* Properties of RagIndex.query
\* ------------------------------------------------------------------------

\* C7: when no leg contributed a ranked list the result is []; otherwise the
\* result has at most top_k documents and the content of each is non-empty
\* and is the best chunk text of its note under the hydration key, also for
\* documents only the BM25 leg found.
C7_HydratedBestChunk ==
    q_pc = "returned" =>
        IF ranked_lists = <<>>
        THEN q_ret = <<>>
        ELSE /\ Len(q_ret) <= q_top_k
             /\ \A i \in 1..Len(q_ret) :
                   /\ q_ret[i].content # <<>>
                   /\ q_ret[i].content \in BestChunkTexts(q_ret[i].id, chunk_query_blob)

\* The searches a run has to make for the legs embedded so far: for every
\* leg whose embedding succeeded the vector search and then, when hybrid is
\* on, the BM25 search; nothing for a leg whose embedding came back empty.
RECURSIVE ExpectedSearches(_)
ExpectedSearches(n) ==
    IF n = 0
    THEN <<>>
    ELSE ExpectedSearches(n - 1) \o
            (IF q_embedded[n].vector = <<>>
             THEN <<>>
             ELSE <<[leg |-> n, kind |-> "vector"]>> \o
                     (IF effective_hybrid THEN <<[leg |-> n, kind |-> "bm25"]>> ELSE <<>>))

LegsDone == q_pc \in {"hydrate", "returned"} /\ expanded_questions # <<>>

\* C8: the expanded queries are embedded one after another in the
\* expander's order; a query whose embedding comes back empty gets no search
\* of either kind and the later queries are still processed; the ranked
\* lists handed to fusion are, in order, the vector list and then (hybrid on)
\* the BM25 list of every successfully embedded query.
C8_LegsInOrder ==
    /\ Len(q_embedded) <= Len(expanded_questions)
    /\ \A i \in 1..Len(q_embedded) : q_embedded[i].text = expanded_questions[i]
    /\ \A i \in 1..Len(q_searches) : q_embedded[q_searches[i].leg].vector # <<>>
    /\ Len(ranked_lists) = Len(q_searches)
    /\ LegsDone =>
          /\ Len(q_embedded) = Len(expanded_questions)
          /\ q_searches = ExpectedSearches(Len(expanded_questions))
          /\ \A i \in 1..Len(q_searches) :
                LET leg == q_searches[i].leg IN
                ranked_lists[i] \in
                   (IF q_searches[i].kind = "vector"
                    THEN search_notes_by_embedding(
                            serialize_vector(q_embedded[leg].vector), fetch_k)
                    ELSE search_notes_by_bm25(expanded_questions[leg], fetch_k))

\* Two queries, hybrid on: the first embedding failed, the second succeeded
\* and contributed its vector list and its BM25 list, which found a note.
C8_Witness ==
    /\ q_pc = "returned"
    /\ Len(expanded_questions) = 2
    /\ effective_hybrid
    /\ q_embedded[1].vector = <<>>
    /\ q_embedded[2].vector # <<>>
    /\ q_searches = <<[leg |-> 2, kind |-> "vector"], [leg |-> 2, kind |-> "bm25"]>>
    /\ ranked_lists[2] # <<>>
    /\ q_ret # <<>>

\* ------------------------------------------------------------------------
\* Properties of QueryExpander.expand
\* ------------------------------------------------------------------------

\* The words of a text, in order: its maximal runs of non-whitespace.
RECURSIVE WordSeq(_, _)
WordSeq(text, current) ==
    LET done == IF current = <<>> THEN <<>> ELSE <<current>>
    IN IF text = <<>> THEN done
       ELSE IF IsSpace(Head(text)) THEN done \o WordSeq(Tail(text), <<>>)
            ELSE WordSeq(Tail(text), Append(current, Head(text)))

RECURSIVE JoinBlank(_)
JoinBlank(words) ==
    IF words = <<>> THEN <<>>
    ELSE IF Len(words) = 1 THEN Head(words)
         ELSE Head(words) \o <<" ">> \o JoinBlank(Tail(words))

\* The whitespace-normalized form of a text: its words joined by one blank.
WhitespaceNormalized(text) == JoinBlank(WordSeq(text, <<>>))

ExpandContract ==
    /\ Len(x_ret) >= 1
    /\ Len(x_ret) <= Min(x_target, 8)
    /\ x_ret[1] = WhitespaceNormalized(x_question)
    /\ \A i, j \in 1..Len(x_ret) : i < j => Lower(x_ret[i]) # Lower(x_ret[j])

\* C12 as stated: for any question and any target count n > 1, whatever the
\* LLM does, expand returns between 1 and min(n, 8) queries, the first is the
\* whitespace-normalized question, and no two are equal ignoring case.
C12_ExpandContractAnyQuestion ==
    (x_pc = "returned" /\ x_target > 1) => ExpandContract

\* C12 amended: the same, for any question that holds at least one
\* non-whitespace character (a blank question gives the empty list).
C12_ExpandContract ==
    (x_pc = "returned" /\ x_target > 1 /\ WordSeq(x_question, <<>>) # <<>>)
        => ExpandContract

\* The LLM proposes nine alternatives, one of them the question itself, for
\* a target count above the cap: eight queries come back.
C12_Witness ==
    /\ x_pc = "returned"
    /\ x_question = <<" ", "t", " ">>
    /\ x_target = 9
    /\ x_llm.called /\ ~x_llm.raised /\ x_llm.text = LongAnswer
    /\ Len(x_ret) = 8
    /\ x_ret[1] = <<"t">>
    /\ x_ret[2] = <<"e">>

\* ------------------------------------------------------------------------
\* Properties of RagIndex.query under a failed expansion
\* ------------------------------------------------------------------------

\* The expander raised or returned [], or its LLM call raised or answered
\* with an empty text.
ExpansionFailed == q_expander \in {"raised", "empty", "llm_raised", "llm_empty"}

\* The original question as the one leg receives it: stripped by
\* _expand_questions, whitespace-normalized by the expander.
OriginalQuestion ==
    IF q_expander \in {"raised", "empty"}
    THEN Strip(q_question)
    ELSE WhitespaceNormalized(q_question)

ListedIds(lists) ==
    UNION {{lists[i][r].id : r \in 1..Len(lists[i])} : i \in 1..Len(lists)}

\* Exactly one leg ran, for the original question, and the result is what
\* that leg found: nothing when its embedding failed, otherwise the first
\* top_k documents of its vector list (hybrid off) or of its vector and BM25
\* lists fused (hybrid on).
OneLegForOriginal ==
    /\ expanded_questions = <<OriginalQuestion>>
    /\ Len(q_embedded) = 1
    /\ q_embedded[1].text = OriginalQuestion
    /\ IF q_embedded[1].vector = <<>>
       THEN q_searches = <<>> /\ q_ret = <<>>
       ELSE /\ q_searches = <<[leg |-> 1, kind |-> "vector"]>> \o
                               (IF effective_hybrid
                                THEN <<[leg |-> 1, kind |-> "bm25"]>> ELSE <<>>)
            /\ Len(ranked_lists) = Len(q_searches)
            /\ {q_ret[i].id : i \in 1..Len(q_ret)} \subseteq ListedIds(ranked_lists)
            /\ Len(q_ret) = Min(q_top_k, Cardinality(ListedIds(ranked_lists)))
            /\ (~effective_hybrid) =>
                  [i \in 1..Len(q_ret) |-> q_ret[i].id]
                     = [i \in 1..Len(q_ret) |-> ranked_lists[1][i].id]

\* C13 as stated: whenever query expansion fails, query runs exactly one
\* retrieval leg, for the original question, and returns that leg's results.
C13_FallbackLegAnyQuestion ==
    (q_pc = "returned" /\ ExpansionFailed) => OneLegForOriginal

\* C13 amended: the same, for a question that holds at least one
\* non-whitespace character (for a blank question no leg runs and the
\* result is []).
C13_FallbackLeg ==
    (q_pc = "returned" /\ ExpansionFailed /\ Strip(q_question) # <<>>)
        => OneLegForOriginal

\* The expander's LLM call raised; the one leg for the question embedded it,
\* searched both ways and found a note.
C13_Witness ==
    /\ q_pc = "returned"
    /\ q_expander = "llm_raised"
    /\ q_question = <<" ", "a">>
    /\ effective_hybrid
    /\ q_embedded = <<[text |-> <<"a">>, vector |-> q_embedded[1].vector]>>
    /\ q_embedded[1].vector # <<>>
    /\ Len(ranked_lists) = 2
    /\ q_ret # <<>>

\* ------------------------------------------------------------------------
\* Properties of reciprocal_rank_fusion
\* ------------------------------------------------------------------------

\* The score the contract gives a document: the sum, over the lists that
\* contain it, of 1 / (k + its 1-based rank there), in units of
\* 1 / RrfScale(longest list).
RECURSIVE ClaimedScore(_, _, _)
ClaimedScore(lists, id, unit) ==
    IF lists = <<>> THEN 0
    ELSE LET ranks == {r \in 1..Len(Head(lists)) : Head(lists)[r].id = id}
         IN (IF ranks = {} THEN 0
             ELSE unit \div (RRF_K + (CHOOSE r \in ranks : TRUE)))
               + ClaimedScore(Tail(lists), id, unit)

ScoreOf(id) == ClaimedScore(f_lists, id, RrfScale(LongestList(f_lists)))

\* C14: the result holds every distinct document id of the input lists
\* exactly once, by descending score; no document in the input gives the
\* empty list; a single input list comes back in its order.
C14_FusionContract ==
    f_pc = "returned" =>
        /\ {f_fused[i].id : i \in 1..Len(f_fused)} = ListedIds(f_lists)
        /\ Len(f_fused) = Cardinality(ListedIds(f_lists))
        /\ \A i, j \in 1..Len(f_fused) :
              i < j => ScoreOf(f_fused[i].id) >= ScoreOf(f_fused[j].id)
        /\ (\A i \in 1..Len(f_lists) : f_lists[i] = <<>>) => f_fused = <<>>
        /\ Len(f_lists) = 1 => f_fused = f_lists[1]

\* Three lists, one of them empty; note 3 is first once and third once and
\* overtakes note 2, second twice, and note 1, first once.
C14_Witness ==
    /\ f_pc = "returned"
    /\ f_lists = << <<Doc(1), Doc(2), Doc(3)>>, <<Doc(3), Doc(2)>>, <<>> >>
    /\ f_fused = <<Doc(3), Doc(2), Doc(1)>>

\* C15: for a non-empty collection of ranked lists, a document ranked first
\* in every list has the highest score and is the first of the result.
C15_FirstEverywhereWins ==
    f_pc = "returned" =>
        \A d \in ListedIds(f_lists) :
           (f_lists # <<>> /\ \A i \in 1..Len(f_lists) :
                                f_lists[i] # <<>> /\ f_lists[i][1].id = d)
              => /\ f_fused[1].id = d
                 /\ \A e \in ListedIds(f_lists) \ {d} : ScoreOf(d) > ScoreOf(e)

\* Note 2 leads all three lists and the result, ahead of two other notes.
C15_Witness ==
    /\ f_pc = "returned"
    /\ f_lists = << <<Doc(2), Doc(1)>>, <<Doc(2), Doc(3)>>, <<Doc(2)>> >>
    /\ Len(f_fused) = 3
    /\ f_fused[1] = Doc(2)

\* ------------------------------------------------------------------------
\* Properties of RagService.ask and of the configuration a query uses
\* ------------------------------------------------------------------------

\* C17: ask returns an answer equal to the full completion of the LLM and
\* an empty thinking field, whatever the completion holds, <think> markers
\* included.
C17_AnswerIsFullCompletion ==
    a_pc = "returned" =>
        /\ a_ret.answer = a_transport.text
        /\ a_ret.thinking = EmptyStr

\* C18: ask_stream calls index.query with transformed_query_count equal to
\* the count saved in the configuration of the service.
C18_QueryUsesSavedCount ==
    s_query_call # NoQueryCall =>
        s_query_call.transformed_query_count = s_entry_config.transformed_query_count

\* C19: a query uses the knob values the configuration held when the query
\* entered: the sources of ask_stream and of ask are the titles truncated to
\* the top_k of that moment, whatever another thread sets meanwhile.
C19_ConfigCapturedAtEntry ==
    /\ s_pc \in {"status", "pull", "poll", "flush", "final", "done"}
          => sources = SourcesOf(s_contexts, s_entry_config.top_k)
    /\ a_pc = "returned"
          => a_ret.sources = SourcesOf(a_contexts, a_entry_config.top_k)

\* C20: generate raises for no client variant and returns the empty string
\* when its transport fails, so ask never ends by an exception of the
\* generate call and returns an empty answer instead.
C20_GenerateNeverRaises ==
    (a_pc \in {"returned", "raised"} /\ a_ret.at # "retrieve") =>
        /\ \A v \in ClientVariants :
              /\ ~client_generate(v, a_transport).raised
              /\ a_transport.failed => client_generate(v, a_transport).text = EmptyStr
        /\ a_pc = "returned"
        /\ a_transport.failed => a_ret.answer = EmptyStr

\* ------------------------------------------------------------------------
\* Properties of the LLM clients under ask_stream
\* ------------------------------------------------------------------------

\* C21: whichever client the service holds, when the transport fails while
\* a completion streams, the run raises and delivers no done event.
C21_CutStreamRaises ==
    llm_failed =>
        /\ s_pc = "raised"
        /\ \A i \in 1..Len(events) : ~events[i].done

\* ------------------------------------------------------------------------
\* Properties of LLMClient.embed
\* ------------------------------------------------------------------------

\* The float32 encodings of NaN and of the infinities.
NonFiniteBytes == { <<0, 0, 192, 127>>, <<0, 0, 128, 127>> }

\* C22: whichever client is used, embed returns the empty vector or a vector
\* of finite numbers; a response with a non-numeric, NaN or infinite element
\* gives the empty vector, and no non-finite value is encoded and stored.
C22_EmbedFiniteOrEmpty ==
    /\ e_pc \in {"embedded", "skipped", "stored", "raised"} =>
          /\ \A i \in 1..Len(e_ret) : IsNumber(e_ret[i]) /\ IsFinite(e_ret[i])
          /\ (\E i \in 1..Len(e_response.embedding) :
                 ~IsFinite(e_response.embedding[i])) => e_ret = <<>>
    /\ e_pc # "raised"
    /\ e_pc = "stored" =>
          \A i \in 1..(Len(e_blob.bytes) \div 4) :
             SubSeq(e_blob.bytes, 4 * i - 3, 4 * i) \notin NonFiniteBytes

\* ------------------------------------------------------------------------
\* Properties of RagIndex._chunk_text
\* ------------------------------------------------------------------------

RECURSIVE JoinSections(_)
JoinSections(chunks) ==
    IF chunks = <<>> THEN <<>>
    ELSE IF Len(chunks) = 1 THEN Head(chunks)
         ELSE Head(chunks) \o <<NL, NL>> \o JoinSections(Tail(chunks))

\* C24: the chunks, joined in order, hold every non-whitespace character of
\* the input in its order and word by word (headings included); every piece
\* of a chunk between blank lines is a contiguous piece of the input, so
\* only whitespace between sections is dropped; and the list is empty only
\* for an empty or all-whitespace input.
C24_NoDataLoss ==
    c_pc = "returned" =>
        /\ WordSeq(JoinSections(c_chunks), <<>>) = WordSeq(c_text, <<>>)
        /\ \A i \in 1..Len(c_chunks) :
              LET pieces == SplitParagraphs(c_chunks[i], 1, 1)
              IN \A k \in 1..Len(pieces) :
                    pieces[k] # <<>> => Find(c_text, pieces[k]) # 0
        /\ (c_chunks = <<>>) <=> (Strip(c_text) = <<>>)

\* Two heading sections that do not fit into one chunk come back as two
\* chunks, headings included.
C24_Witness ==
    /\ c_pc = "returned"
    /\ c_text = <<"#", " ", "a", NL, "#", " ", "a">>
    /\ c_max = 3
    /\ c_chunks = << <<"#", " ", "a">>, <<"#", " ", "a">> >>

\* ------------------------------------------------------------------------
\* Properties of the lexical index
\* ------------------------------------------------------------------------

\* C25: once a store has opened the file, the lexical index holds exactly one
\* entry per existing note, with the note's id and its current title and
\* content, and none for a deleted note; that covers a file that held notes
\* but no index when it was opened.
C25_IndexMatchesNotes ==
    fts_created => notes_fts = fts_rebuild(db_notes)

\* An update has just run on a file where one note is gone and one is left.
C25_Witness ==
    /\ db_last = "update_note"
    /\ DOMAIN db_notes # {}
    /\ \E id \in 1..(db_next_id - 1) : id \notin DOMAIN db_notes

\* A file that held notes but no index has just been opened.
C25_WitnessRebuild ==
    /\ db_last = "open"
    /\ DOMAIN db_notes # {}
    /\ notes_fts # {}

\* ------------------------------------------------------------------------
\* Properties of the FTS query sanitization
\* ------------------------------------------------------------------------

\* The text from position i on continues a list of double-quoted tokens;
\* where: "open" expects the opening quote, "first" the first character of a
\* token, "inside" a further character or the closing quote, "closed" the
\* end or the single separating space.
RECURSIVE QuotedTokensFrom(_, _, _)
QuotedTokensFrom(text, i, where) ==
    IF i > Len(text) THEN where = "closed"
    ELSE LET c == text[i]
             plain == c \notin {QUOTE, "^", "*", "(", ")", "[", "]"} /\ ~IsSpace(c)
         IN CASE where = "open" -> c = QUOTE /\ QuotedTokensFrom(text, i + 1, "first")
              [] where = "first" -> plain /\ QuotedTokensFrom(text, i + 1, "inside")
              [] where = "inside" ->
                    IF c = QUOTE THEN QuotedTokensFrom(text, i + 1, "closed")
                    ELSE plain /\ QuotedTokensFrom(text, i + 1, "inside")
              [] where = "closed" ->
                    /\ c = " "
                    /\ i < Len(text)
                    /\ QuotedTokensFrom(text, i + 1, "open")

\* Some character of the raw query is neither a meta-character nor
\* whitespace: a token survives.
TokenSurvives(query) ==
    \E i \in 1..Len(query) :
        query[i] \notin {QUOTE, "^", "*", "(", ")", "[", "]"} /\ ~IsSpace(query[i])

\* C26: the sanitized query is a list of double-quoted tokens separated by
\* single spaces, no token holds a meta-character, it is empty exactly when no
\* token survives, and then the search returns [] and the engine receives
\* nothing; the engine only ever receives the sanitized query.
C26_SanitizedQuery ==
    LET safe == sanitize_fts_query(b_query)
    IN /\ safe = <<>> <=> ~TokenSurvives(b_query)
       /\ safe # <<>> => QuotedTokensFrom(safe, 1, "open")
       /\ b_pc = "returned" /\ safe = <<>> => b_ret = "empty" /\ b_engine = <<>>
       /\ \A i \in 1..Len(b_engine) : b_engine[i] = safe /\ safe # <<>>

\* A query with a meta-character glued to a token has been searched.
C26_Witness ==
    /\ b_pc = "returned"
    /\ b_query = <<"a", "*", "a">>
    /\ b_engine = << <<QUOTE, "a", QUOTE, " ", QUOTE, "a", QUOTE>> >>

\* A query of meta-characters and whitespace only has been answered.
C26_WitnessEmpty ==
    /\ b_pc = "returned"
    /\ b_query = <<"(", " ", "*">>
    /\ b_ret = "empty"
    /\ b_engine = <<>>

\* ------------------------------------------------------------------------
\* Properties of the chunk table
\* ------------------------------------------------------------------------

\* C27: every stored chunk belongs to a note that exists, in the committed
\* table and in what the indexing handle sees inside its transaction.
C27_ChunksHaveNotes ==
    /\ \A r \in embeddings : r.note_id \in DOMAIN notes
    /\ tx.open => \A r \in tx.rows : r.note_id \in DOMAIN notes

\* A note has been deleted while chunks of another note are stored.
C27_Witness ==
    /\ embeddings # {}
    /\ \E id \in 1..(next_id - 1) : id \notin DOMAIN notes

\* replace_note_embeddings ran for a note deleted in the meantime and the
\* insert was refused.
C27_WitnessRefused ==
    /\ ix_pc = "raised"
    /\ ix_note.id \notin DOMAIN notes

\* ------------------------------------------------------------------------
\* Properties of the non-streaming pipeline
\* ------------------------------------------------------------------------

\* C28: in a pipeline built with a chunk selector the generation prompt is
\* built from exactly the chunks the selector kept, in their order; when it
\* kept none, the prompt is built from none.
C28_PromptFromSelected ==
    g_selector /\ g_pc \in {"end", "raised"} =>
        g_prompt = g_state.selected_contexts

\* ------------------------------------------------------------------------
\* Properties of the background reindex (liveness)
\* ------------------------------------------------------------------------

\* C29: every background reindex that was started eventually leaves the
\* running flag false, on the HTTP front end and on the desktop.
C29_ReindexEndsNotRunning ==
    /\ api_running ~> ~api_running
    /\ desk_running ~> ~desk_running

\* ------------------------------------------------------------------------
\* Properties of the store handles
\* ------------------------------------------------------------------------

\* C30: no store operation is issued on a closed handle; the handle the window
\* and its service use stays open, whatever clones are closed and whatever
\* configuration saves replace the service.
C30_NoUseAfterClose ==
    /\ \A i \in 1..Len(h_ops) : h_ops[i].open
    /\ h_open[SharedHandle]

\* Closing a clone closes the clone's handle and no other.
CloneCloseIsLocal ==
    h_saves = 0 =>
        /\ h_open[SharedHandle]
        /\ \A w \in DOMAIN h_clones : h_clones[w].phase = "build" => h_open[h_clones[w].service.repo]

====
